---- MODULE Spec2Model ----
(***************************************************************************)
(* Mini Battle Arena: the combat core (BattleSystem, GameEngine,           *)
(* Character, the damage paths of Arena) as a state machine.               *)
(*                                                                         *)
(* Units.  Time is counted in quanta of 1/QuantaPerSecond seconds, the     *)
(* largest frame step gameLoop lets through (Math.min(dt, 1/30)).  Health   *)
(* and damage are counted in 1/HpScale hit points, so that every product   *)
(* the code forms (x1.5 heavy, x1.5 rage, x0.5 and x0.3 block, 5 x dt      *)
(* lava) is an integer.  Horizontal speed is in pixels per second.         *)
(***************************************************************************)
EXTENDS Integers, FiniteSets, Sequences, TLC

Max(a, b) == IF a >= b THEN a ELSE b
Min(a, b) == IF a <= b THEN a ELSE b
Abs(a) == IF a >= 0 THEN a ELSE 0 - a
\* x * 0.1 of stun(), rounded toward zero
Tenth(a) == IF a >= 0 THEN a \div 10 ELSE 0 - ((0 - a) \div 10)

(***************************************************************************)
(* Units and bounds                                                        *)
(***************************************************************************)
QuantaPerSecond == 30
HpScale == 2 * 2 * 10 * 3

\* a step of the frame action stands for a run of consecutive capped frames
\* whose deltas sum to FrameRun quanta
FrameRun == 150
\* input events and AI callbacks handled in one match
MaxCalls == 1
\* number of matches started in one behaviour
MaxMatches == 2
\* the archetypes a match is started with: <<player, opponent>>
Lineups == {<<"berserker", "ninja">>, <<"mage", "mage">>}

\* the duel: its archetypes, the attacks the player asks for, the rules the
\* AI draws, and the input events and AI callbacks handled
DuelLineups == {<<"ninja", "ninja">>}
DuelAttacks == {"special"}
DuelRules == {"special", "block", "dash", "idle"}
DuelCalls == 10
\* the longest an arena is run, in quanta
MaxArenaTime == 600

\* the direct calls: the archetypes of the two combatants, config.defense,
\* the amounts handed to takeDamage and heal (in 1/HpScale hit points), and
\* the number of calls made
ApiLineups == {<<"knight", "ninja">>, <<"berserker", "mage">>}
ApiDefenses == {0, 40}
Amounts == {0 - 5 * HpScale, 20, 200 * HpScale}
ApiCalls == 3

(***************************************************************************)
(* gameConfig                                                              *)
(***************************************************************************)
battleDuration == 30
maxHealth == 100
attackDamageLight == 15
moveSpeed == 200
dashSpeed == 400
blockReduction == 5
blockCooldown == 30
dashCooldown == 60
dashDuration == 9
arenaWidth == 800
arenaHeight == 600

maxBattleTime == battleDuration * QuantaPerSecond

(***************************************************************************)
(* Character archetypes                                                    *)
(***************************************************************************)
Combatants == {"player", "opponent"}
Other(c) == IF c = "player" THEN "opponent" ELSE "player"
CharacterTypes == {"ninja", "knight", "mage", "berserker"}

charWidth == 40
charHeight == 60
invulnerabilityWindow == 6

NoAbility == [damage |-> 0, range |-> 0, cooldown |-> 0, knockback |-> 0, stun |-> 0]

\* Character.getDefaultAbilities: lightAttack
LightAbility(type) ==
    LET base == [damage |-> attackDamageLight * HpScale, range |-> 50,
                 cooldown |-> 15, knockback |-> 100, stun |-> 0]
    IN CASE type = "ninja"     -> [base EXCEPT !.damage = 12 * HpScale, !.cooldown = 9]
         [] type = "knight"    -> [base EXCEPT !.damage = 20 * HpScale, !.knockback = 150]
         [] type = "mage"      -> [base EXCEPT !.damage = 18 * HpScale, !.range = 70]
         [] type = "berserker" -> [base EXCEPT !.damage = 25 * HpScale, !.cooldown = 18]
         [] OTHER              -> base

\* heavyAttack: { ...ability, damage: ability.damage * 1.5, cooldown: ability.cooldown * 2 }
HeavyAbility(type) ==
    LET a == LightAbility(type)
    IN [a EXCEPT !.damage = (a.damage * 3) \div 2, !.cooldown = a.cooldown * 2]

\* Character.getDefaultAbilities: shadowStrike, shieldBash, fireball
SpecialAbility(type) ==
    CASE type = "ninja"  -> [NoAbility EXCEPT !.damage = 20 * HpScale, !.range = 80, !.cooldown = 90]
      [] type = "knight" -> [NoAbility EXCEPT !.damage = 15 * HpScale, !.range = 40, !.cooldown = 60,
                                              !.stun = 30]
      [] type = "mage"   -> [NoAbility EXCEPT !.damage = 25 * HpScale, !.range = 120, !.cooldown = 75]
      [] OTHER           -> NoAbility

\* the delays of the setTimeout calls of attack(), dash() and rage()
attackDelay == 12
dashDelay == dashDuration
rageCooldownTime == 450
rageDelay == 150
rageDamageTenths == 15
rageSpeedTenths == 13

\* abilities.block.reduction, in tenths
BlockReduction(type) == IF type = "knight" THEN 7 ELSE blockReduction
\* abilities.dash.cooldown
DashCooldown(type) == IF type = "ninja" THEN 45 ELSE dashCooldown

\* new Character(id, config): the fields the combat logic reads and writes;
\* attackDue and dashDue are the times left to the pending setTimeout
\* callbacks of attack() and dash(); sinceAttack is the time since the last
\* successful attack and sinceDash the tick time since the last successful
\* dash, where a clock observes them.
\* stunFor and sinceStun keep the duration of the last stun and the time
\* updated since it, up to that duration
NewCharacter(type, x0, def) ==
    [type |-> type, x |-> x0, y |-> arenaHeight - 200, vx |-> 0, vy |-> 0,
     health |-> maxHealth * HpScale, defense |-> def,
     facingRight |-> TRUE,
     isAttacking |-> FALSE, isBlocking |-> FALSE, isDashing |-> FALSE,
     isStunned |-> FALSE, isDead |-> FALSE,
     attackCooldown |-> 0, blockCooldown |-> 0, dashCooldown |-> 0,
     stunDuration |-> 0, invulnerabilityTime |-> 0,
     rageActive |-> FALSE, rageCooldown |-> 0, rageDuration |-> 0,
     stunFor |-> 0, sinceStun |-> 0, deaths |-> 0,
     attackEnd |-> FALSE, dashEnd |-> FALSE, rageEnd |-> FALSE, isGrounded |-> FALSE,
     attackDue |-> {}, dashDue |-> {}, sinceAttack |-> attackDelay, sinceDash |-> dashDuration]

(***************************************************************************)
(* Character: operations on the table chs of the two combatants             *)
(***************************************************************************)
\* Character.getDamageMultiplier, in tenths
DamageMultiplier(ch) == IF ch.type = "berserker" /\ ch.rageActive THEN rageDamageTenths ELSE 10
\* Character.getSpeedMultiplier, in tenths
SpeedMultiplier(ch) == IF ch.type = "berserker" /\ ch.rageActive THEN rageSpeedTenths ELSE 10

\* Character.takeDamage(amount, attacker)
TakeDamageMut(chs, c, amount) ==
    IF chs[c].invulnerabilityTime > 0 \/ chs[c].isDead THEN chs
    ELSE [chs EXCEPT ![c].health = Max(0, @ - (IF chs[c].isBlocking THEN amount \div 2 ELSE amount)),
                     ![c].invulnerabilityTime = invulnerabilityWindow]
TakeDamage(chs, c, amount) ==
    IF chs[c].invulnerabilityTime > 0 \/ chs[c].isDead THEN chs
    ELSE [chs EXCEPT ![c].health = Max(0, @ - amount),
                     ![c].invulnerabilityTime = invulnerabilityWindow]

\* Character.heal(amount)
Heal(chs, c, amount) ==
    IF chs[c].isDead THEN chs
    ELSE [chs EXCEPT ![c].health = Min(maxHealth * HpScale, @ + amount)]

\* Character.stun(duration)
Stun(chs, c, duration) ==
    [chs EXCEPT ![c].isStunned = TRUE, ![c].stunDuration = duration, ![c].vx = Tenth(@),
                ![c].stunFor = duration, ![c].sinceStun = 0]

\* dealDamage: damage = Math.max(1, damage - target.defense)
DefenseFloorMut(damage, defense) == Max(0, damage - defense * HpScale)
DefenseFloor(damage, defense) == Max(HpScale, damage - defense * HpScale)

\* dealDamage: the amount handed to target.takeDamage
EffectiveDamageMut(attacker, target, ability) ==
    DefenseFloor((ability.damage * DamageMultiplier(attacker)) \div 10, target.defense)
EffectiveDamage(attacker, target, ability) ==
    LET raw == (ability.damage * DamageMultiplier(attacker)) \div 10
        blocked == IF target.isBlocking
                   THEN (raw * (10 - BlockReduction(target.type))) \div 10
                   ELSE raw
    IN DefenseFloor(blocked, target.defense)

\* Character.dealDamage(target, ability)
DealDamage(chs, a, t, ability) ==
    IF chs[t].invulnerabilityTime > 0 THEN chs
    ELSE LET c1 == TakeDamage(chs, t, EffectiveDamage(chs[a], chs[t], ability))
             c2 == IF ability.knockback > 0 /\ ~c1[t].isBlocking
                   THEN [c1 EXCEPT ![t].vx = @ + (IF c1[a].facingRight THEN ability.knockback
                                                   ELSE 0 - ability.knockback)]
                   ELSE c1
         IN IF ability.stun > 0 THEN Stun(c2, t, ability.stun) ELSE c2

\* physicsEngine.getBodiesInRadius around the attack hitbox of attack(ability):
\* both bodies stand at the same height, so the distance is horizontal
\* (coordinates doubled to keep range / 2 whole)
InHitbox(attacker, target, ability) ==
    LET centre2 == IF attacker.facingRight
                   THEN 2 * attacker.x + 2 * charWidth + ability.range
                   ELSE 2 * attacker.x - ability.range
        body2 == 2 * target.x + charWidth
    IN Abs(body2 - centre2) <= ability.range

\* Character.attack(ability)
Attack(chs, a, ability) ==
    LET c1 == [chs EXCEPT ![a].isAttacking = TRUE, ![a].attackEnd = TRUE,
                          ![a].attackDue = @ \cup {attackDelay}]
        t == Other(a)
    IN IF InHitbox(c1[a], c1[t], ability) THEN DealDamage(c1, a, t, ability) ELSE c1

\* what a call leaves behind: its return value, the combatants, and the
\* game objects it added
Refused(chs) == [ret |-> FALSE, chs |-> chs, spawned |-> {}]
Done(chs) == [ret |-> TRUE, chs |-> chs, spawned |-> {}]

\* the guard of lightAttack and heavyAttack
AttackRefusedMut(ch) == ch.isStunned \/ ch.isDead
AttackRefused(ch) == ch.attackCooldown > 0 \/ ch.isStunned \/ ch.isDead

\* Character.lightAttack()
LightAttack(chs, a) ==
    IF AttackRefused(chs[a]) THEN Refused(chs)
    ELSE LET ability == LightAbility(chs[a].type)
             c1 == Attack(chs, a, ability)
         IN Done([c1 EXCEPT ![a].attackCooldown = ability.cooldown])

\* Character.heavyAttack()
HeavyAttack(chs, a) ==
    IF AttackRefused(chs[a]) THEN Refused(chs)
    ELSE LET ability == HeavyAbility(chs[a].type)
             c1 == Attack(chs, a, ability)
         IN Done([c1 EXCEPT ![a].attackCooldown = ability.cooldown])

\* Character.shadowStrike()
ShadowStrike(chs, a) ==
    LET ability == SpecialAbility("ninja")
        t == Other(a)
    IN IF chs[a].attackCooldown > 0 THEN Refused(chs)
       ELSE IF chs[t].isDead THEN Refused(chs)
       ELSE LET c1 == [chs EXCEPT ![a].x = chs[t].x + (IF chs[a].facingRight THEN 0 - 60 ELSE 60)]
                c2 == Attack(c1, a, ability)
            IN Done([c2 EXCEPT ![a].attackCooldown = ability.cooldown])

\* Character.shieldBash()
ShieldBash(chs, a) ==
    LET ability == SpecialAbility("knight")
    IN IF chs[a].attackCooldown > 0 THEN Refused(chs)
       ELSE LET c1 == Attack(chs, a, ability)
            IN Done([c1 EXCEPT ![a].attackCooldown = ability.cooldown])

\* Character.rage()
Rage(chs, a) ==
    IF chs[a].rageActive \/ chs[a].rageCooldown > 0 THEN Refused(chs)
    ELSE Done([chs EXCEPT ![a].rageActive = TRUE, ![a].rageCooldown = rageCooldownTime,
                          ![a].rageDuration = rageDelay, ![a].rageEnd = TRUE])

\* Character.startBlock()
StartBlock(chs, c) ==
    IF chs[c].blockCooldown > 0 \/ chs[c].isStunned \/ chs[c].isDead THEN Refused(chs)
    ELSE Done([chs EXCEPT ![c].isBlocking = TRUE])

\* Character.stopBlock()
StopBlockMut(chs, c) ==
    [chs EXCEPT ![c].blockCooldown = blockCooldown]
StopBlock(chs, c) ==
    [chs EXCEPT ![c].isBlocking = FALSE, ![c].blockCooldown = blockCooldown]

\* Character.dash(directionX, directionY)
Dash(chs, c, dirX) ==
    IF chs[c].dashCooldown > 0 \/ chs[c].isStunned \/ chs[c].isDead THEN Refused(chs)
    ELSE LET speed == (dashSpeed * SpeedMultiplier(chs[c])) \div 10
         IN Done([chs EXCEPT ![c].isDashing = TRUE, ![c].dashEnd = TRUE,
                             ![c].dashDue = @ \cup {dashDelay},
                             ![c].vx = dirX * speed,
                             ![c].dashCooldown = DashCooldown(chs[c].type)])

\* Character.move(deltaX, deltaY), deltaX in hundredths
Move(chs, c, deltaX) ==
    IF chs[c].isStunned \/ chs[c].isDashing \/ chs[c].isDead THEN chs
    ELSE [chs EXCEPT ![c].vx = (deltaX * moveSpeed * SpeedMultiplier(chs[c])) \div 1000,
                     ![c].facingRight = IF deltaX > 10 THEN TRUE
                                        ELSE IF deltaX < 0 - 10 THEN FALSE ELSE @]

\* Character.updateTimers(deltaTime) and updateAbilities(deltaTime), the
\* latter updateRage for the berserker
UpdateTimersMut(ch, dt) ==
    [ch EXCEPT !.attackCooldown = Max(0, @ - dt),
               !.blockCooldown = Max(0, @ - dt),
               !.dashCooldown = Max(0, @ - dt),
               !.stunDuration = Max(0, @ - dt),
               !.invulnerabilityTime = Max(0, @ - dt),
               !.isStunned = FALSE,
               !.sinceStun = Min(@ + dt, ch.stunFor),
               !.rageDuration = IF ch.type = "berserker" /\ @ > 0 THEN @ - dt ELSE @,
               !.rageCooldown = IF ch.type = "berserker" /\ @ > 0 THEN @ - dt ELSE @]
UpdateTimers(ch, dt) ==
    LET stun == Max(0, ch.stunDuration - dt)
    IN [ch EXCEPT !.attackCooldown = Max(0, @ - dt),
                  !.blockCooldown = Max(0, @ - dt),
                  !.dashCooldown = Max(0, @ - dt),
                  !.stunDuration = stun,
                  !.invulnerabilityTime = Max(0, @ - dt),
                  !.isStunned = IF stun <= 0 THEN FALSE ELSE @,
                  !.sinceStun = Min(@ + dt, ch.stunFor),
                  !.rageDuration = IF ch.type = "berserker" /\ @ > 0 THEN @ - dt ELSE @,
                  !.rageCooldown = IF ch.type = "berserker" /\ @ > 0 THEN @ - dt ELSE @]

\* createProjectile(ability): the object added to gameEngine.gameObjects
NewProjectile(a, ch) ==
    [owner |-> a, x |-> ch.x + (IF ch.facingRight THEN charWidth ELSE 0),
     dir |-> IF ch.facingRight THEN 1 ELSE 0 - 1,
     damage |-> SpecialAbility("mage").damage]

\* Character.fireball()
Fireball(chs, a) ==
    IF chs[a].attackCooldown > 0 THEN Refused(chs)
    ELSE [ret |-> TRUE,
          chs |-> [chs EXCEPT ![a].attackCooldown = SpecialAbility("mage").cooldown],
          spawned |-> {NewProjectile(a, chs[a])}]

\* Character.specialAttack()
SpecialAttack(chs, a) ==
    IF chs[a].isStunned \/ chs[a].isDead THEN Refused(chs)
    ELSE CASE chs[a].type = "ninja"     -> ShadowStrike(chs, a)
           [] chs[a].type = "knight"    -> ShieldBash(chs, a)
           [] chs[a].type = "mage"      -> Fireball(chs, a)
           [] chs[a].type = "berserker" -> Rage(chs, a)
           [] OTHER                     -> LightAttack(chs, a)

projectileSpeed == 10
projectileSize == 8

\* the update closure of createProjectile over a run of dt capped frames: the
\* projectile advances projectileSpeed pixels per quantum and is tested after
\* every frame against the bodies within projectileSize of it
ProjectileReaches(p, target, dt) ==
    \E j \in 1..dt :
        Abs((target.x + charWidth \div 2) - (p.x + p.dir * projectileSpeed * j)) <= projectileSize

ProjectileAdvance(p, dt) == [p EXCEPT !.x = @ + p.dir * projectileSpeed * dt]

\* a projectile that left the arena can reach no body any more and is dropped
\* from the model (the code keeps it: its removeGameObject names another id)
InArena(p) == p.x >= 0 /\ p.x <= arenaWidth

ProjectilesUpdate(s, dt) ==
    LET hitOn(c) == {p \in s.projectiles : p.owner # c /\ ProjectileReaches(p, s.ch[c], dt)}
        strike(chs, c) == IF hitOn(c) = {} THEN chs
                          ELSE TakeDamage(chs, c, (CHOOSE p \in hitOn(c) : TRUE).damage)
    IN [s EXCEPT !.ch = strike(strike(@, "player"), "opponent"),
                 !.projectiles = {q \in {ProjectileAdvance(p, dt) : p \in s.projectiles} : InArena(q)}]

\* the entry createProjectile(ability) puts in gameEngine.gameObjects under
\* the key `projectile_${Date.now()}`, with the projectile its closure holds.
\* key numbers the entries of a match in the order they were made; named
\* says that the key the closure builds in the update to come is this
\* entry's key, which takes an update in the millisecond of the entry's
\* making; hits counts the calls of takeDamage the projectile has made
projectileLife == 60

NewProjectileObject(key, a, ch) ==
    [key |-> key, owner |-> a, x |-> ch.x + (IF ch.facingRight THEN charWidth ELSE 0),
     dir |-> IF ch.facingRight THEN 1 ELSE 0 - 1,
     damage |-> SpecialAbility("mage").damage,
     life |-> projectileLife, fresh |-> TRUE, named |-> FALSE, hits |-> 0]

\* update(dt) of the entry's closure for one capped frame: the projectile
\* moves and ages, removeGameObject is called with the key of this
\* millisecond when its life is over and when it has struck a character.
\* Past the edges of the arena x is held, no body being there to reach, and
\* life is held below 0
ProjectileObjectUpdate(s, p) ==
    LET target == Other(p.owner)
        x == Max(0 - projectileSpeed, Min(arenaWidth + projectileSpeed, p.x + p.dir * projectileSpeed))
        life == Max(0 - 1, p.life - 1)
        reached == Abs((s.ch[target].x + charWidth \div 2) - x) <= projectileSize
        q == [p EXCEPT !.x = x, !.life = life, !.fresh = FALSE, !.named = FALSE,
                       !.hits = IF reached THEN @ + 1 ELSE @]
        removed == p.named /\ (life <= 0 \/ reached)
    IN [s EXCEPT !.ch = IF reached THEN TakeDamage(@, target, p.damage) ELSE @,
                 !.projectileObjects = (@ \ {p}) \cup (IF removed THEN {} ELSE {q})]

\* the updates of the entries of createProjectile in one frame, in the order
\* the entries were made
RECURSIVE ProjectileObjectsFrame(_, _)
ProjectileObjectsFrame(s, keys) ==
    IF keys = {} THEN s
    ELSE LET k == CHOOSE i \in keys : \A j \in keys : i <= j
             p == CHOOSE o \in s.projectileObjects : o.key = k
         IN ProjectileObjectsFrame(ProjectileObjectUpdate(s, p), keys \ {k})

\* the same over dt frames
RECURSIVE ProjectileObjectsUpdate(_, _)
ProjectileObjectsUpdate(s, dt) ==
    IF dt = 0 \/ s.projectileObjects = {} THEN s
    ELSE ProjectileObjectsUpdate(
             ProjectileObjectsFrame(s, {o.key : o \in s.projectileObjects}), dt - 1)

(***************************************************************************)
(* PhysicsEngine.bodies: the table of bodies, as a set of entries with      *)
(* unique ids; owner is the match whose startBattle put the entry there     *)
(***************************************************************************)
\* Map.set(id, body) of createBody
PutBody(bodies, id, at, owner) ==
    {b \in bodies : ~(b.id = id /\ b.at = at)} \cup {[id |-> id, at |-> at, owner |-> owner]}

(***************************************************************************)
(* Arena and ArenaSystem: an arena a, its hazards and their phases          *)
(***************************************************************************)
ArenaTypes == {"basic", "volcanic", "windy", "spiky", "chaotic"}

\* where hazardConfig comes from: ArenaSystem.createArena hands the
\* constructor arenaTypes[type].hazards as it stands ("system"); a config
\* without hazards takes Arena.getDefaultHazards() ("default")
Builds == {"system", "default"}

\* arenaTypes[type].platforms
PlatformIds(type) == IF type = "windy" THEN {"arena_platform_0", "arena_platform_1"} ELSE {}

\* this.hazardConfig of an arena of the type, in quanta: which hazards are
\* enabled, and for each the durations and ranges the updates read; sized,
\* timed and placed say whether fallingRocks has size and speed, lavaFloor
\* its three durations and spikes its positions, and an empty set is a range
\* the config does not have
HazardConfig(type, build) ==
    [rocks |-> build = "default" \/ type \in {"basic", "volcanic", "spiky", "chaotic"},
     sized |-> build = "default",
     lava |-> type \in {"volcanic", "chaotic"},
     timed |-> build = "default",
     lavaCooldown |-> 5 * QuantaPerSecond,
     lavaWarning |-> QuantaPerSecond,
     lavaActive |-> 3 * QuantaPerSecond,
     wind |-> build = "default" \/ type \in {"basic", "windy", "chaotic"},
     windDurations |-> IF build = "default" THEN {2 * QuantaPerSecond, 4 * QuantaPerSecond} ELSE {},
     windCooldowns |-> IF build = "default"
                       THEN IF type = "windy" THEN {3 * QuantaPerSecond, 6 * QuantaPerSecond}
                            ELSE {5 * QuantaPerSecond, 10 * QuantaPerSecond}
                       ELSE IF type = "windy" THEN {2 * QuantaPerSecond, 5 * QuantaPerSecond}
                       ELSE {},
     spikes |-> type \in {"spiky", "chaotic"},
     placed |-> build = "default",
     spikeActive |-> QuantaPerSecond,
     spikeCooldowns |-> {3 * QuantaPerSecond, 5 * QuantaPerSecond}]


\* this.lavaFloorState, this.windGustState and one entry of this.spikeStates
\* as initEnvironmentalEffects makes them; on is whether the state exists
NoLava == [on |-> FALSE, active |-> FALSE, isWarning |-> FALSE, timer |-> 0, warningTimer |-> 0]
NoWind == [on |-> FALSE, active |-> FALSE, timer |-> 0, cooldownTimer |-> 0]
NewSpike(first) == [active |-> FALSE, timer |-> 0, cooldownTimer |-> first]

\* arenaSystem.currentArena before any arena is loaded
NoArena ==
    [type |-> "none", build |-> "system", owner |-> 0, hazardSpawnTimer |-> 0,
     rocks |-> {}, lava |-> NoLava, wind |-> NoWind, spikes |-> <<>>]

\* new Arena(id, config) followed by init(): createPlatforms is in
\* ArenaBodies; initEnvironmentalEffects throws a TypeError on
\* hazardConfig.spikes.positions.map when positions is not there, after the
\* lava and wind states are made. firsts are the draws of the spikes'
\* first cooldowns, one per position generateSpikePositions kept
ArenaInit(type, build, owner, firsts) ==
    LET a == [NoArena EXCEPT !.type = type, !.build = build, !.owner = owner,
                             !.lava = IF HazardConfig(type, build).lava THEN [NoLava EXCEPT !.on = TRUE] ELSE @,
                             !.wind = IF HazardConfig(type, build).wind THEN [NoWind EXCEPT !.on = TRUE]
                                      ELSE @]
    IN IF ~HazardConfig(type, build).spikes THEN [a |-> a, thrown |-> FALSE]
       ELSE IF ~HazardConfig(type, build).placed THEN [a |-> a, thrown |-> TRUE]
       ELSE [a |-> [a EXCEPT !.spikes = [i \in 1..Len(firsts) |-> NewSpike(firsts[i])]],
             thrown |-> FALSE]

\* Arena.createPlatforms()
CreatePlatforms(bodies, a) ==
    {b \in bodies : b.id \notin PlatformIds(a.type)}
        \cup {[id |-> p, at |-> 0, owner |-> a.owner] : p \in PlatformIds(a.type)}

\* the body of a falling rock, named by the time it was spawned at
RockBody(rock, owner) == [id |-> "rock", at |-> rock.at, owner |-> owner]

\* Arena.destroy(): the bodies of its hazards and of its platforms go
ArenaDestroy(bodies, a) ==
    {b \in bodies : b.id \notin PlatformIds(a.type) /\ b \notin {RockBody(r, a.owner) : r \in a.rocks}}

\* Arena.spawnHazards(deltaTime): spawn is whether Math.random() fell under
\* spawnRate * deltaTime; spawnFallingRock throws a TypeError on
\* config.size.max when the config has no size
SpawnHazards(a, spawn, draw) ==
    IF ~HazardConfig(a.type, a.build).rocks \/ ~spawn THEN [a |-> a, thrown |-> FALSE]
    ELSE IF ~HazardConfig(a.type, a.build).sized THEN [a |-> a, thrown |-> TRUE]
    ELSE [a |-> [a EXCEPT !.rocks = @ \cup {[at |-> a.hazardSpawnTimer, x |-> draw[3], size |-> draw[1],
                                            y |-> 0 - draw[1] * QuantaPerSecond,
                                            vy |-> draw[2], life |-> 10 * QuantaPerSecond]}],
          thrown |-> FALSE]

\* Arena.updateHazards(deltaTime); y is in 1/QuantaPerSecond pixels
UpdateHazards(a, dt) ==
    LET moved == {[r EXCEPT !.y = @ + r.vy * dt, !.life = @ - dt] : r \in a.rocks}
    IN [a EXCEPT !.rocks = {r \in moved : ~(r.y > (arenaHeight + 100) * QuantaPerSecond \/ r.life <= 0)}]

\* Arena.updateLavaFloor(deltaTime) under the config h; a comparison with a
\* duration the config does not have is false
UpdateLavaFloorMut(l, h, dt) ==
    IF ~l.active /\ ~l.isWarning
    THEN IF h.timed /\ l.timer + dt >= h.lavaCooldown
         THEN [l EXCEPT !.isWarning = TRUE, !.warningTimer = h.lavaWarning, !.timer = 0]
         ELSE [l EXCEPT !.timer = @ + dt]
    ELSE IF l.isWarning
    THEN IF l.warningTimer - dt <= 0
         THEN [l EXCEPT !.warningTimer = @ - dt, !.active = TRUE, !.timer = 0]
         ELSE [l EXCEPT !.warningTimer = @ - dt]
    ELSE IF h.timed /\ l.timer + dt >= h.lavaActive
         THEN [l EXCEPT !.active = FALSE, !.timer = 0]
         ELSE [l EXCEPT !.timer = @ + dt]
UpdateLavaFloor(l, h, dt) ==
    IF ~l.active /\ ~l.isWarning
    THEN IF h.timed /\ l.timer + dt >= h.lavaCooldown
         THEN [l EXCEPT !.isWarning = TRUE, !.warningTimer = h.lavaWarning, !.timer = 0]
         ELSE [l EXCEPT !.timer = @ + dt]
    ELSE IF l.isWarning
    THEN IF l.warningTimer - dt <= 0
         THEN [l EXCEPT !.warningTimer = @ - dt, !.active = TRUE, !.isWarning = FALSE, !.timer = 0]
         ELSE [l EXCEPT !.warningTimer = @ - dt]
    ELSE IF h.timed /\ l.timer + dt >= h.lavaActive
         THEN [l EXCEPT !.active = FALSE, !.timer = 0]
         ELSE [l EXCEPT !.timer = @ + dt]

\* Math.random() * (max - min) + min, drawn at one of the two ends
Pick(range, long) ==
    IF long THEN CHOOSE x \in range : \A y \in range : y <= x
    ELSE CHOOSE x \in range : \A y \in range : x <= y

\* Arena.updateWindGusts(deltaTime): a range the config does not have throws
\* a TypeError after the assignment to state.active
UpdateWindGusts(w, h, dt, long) ==
    IF ~w.active
    THEN LET w1 == [w EXCEPT !.cooldownTimer = @ - dt]
         IN IF w1.cooldownTimer > 0 THEN [w |-> w1, thrown |-> FALSE]
            ELSE IF h.windDurations = {}
            THEN [w |-> [w1 EXCEPT !.active = TRUE], thrown |-> TRUE]
            ELSE [w |-> [w1 EXCEPT !.active = TRUE, !.timer = Pick(h.windDurations, long)],
                  thrown |-> FALSE]
    ELSE LET w1 == [w EXCEPT !.timer = @ - dt]
         IN IF w1.timer > 0 THEN [w |-> w1, thrown |-> FALSE]
            ELSE IF h.windCooldowns = {}
            THEN [w |-> [w1 EXCEPT !.active = FALSE], thrown |-> TRUE]
            ELSE [w |-> [w1 EXCEPT !.active = FALSE,
                                   !.cooldownTimer = Pick(h.windCooldowns, long)],
                  thrown |-> FALSE]

\* Arena.updateSpikes(deltaTime) on one entry of spikeStates
UpdateSpike(sp, h, dt, long) ==
    IF ~sp.active
    THEN IF sp.cooldownTimer - dt <= 0
         THEN [sp EXCEPT !.cooldownTimer = @ - dt, !.active = TRUE, !.timer = h.spikeActive]
         ELSE [sp EXCEPT !.cooldownTimer = @ - dt]
    ELSE IF sp.timer - dt <= 0
         THEN [sp EXCEPT !.timer = @ - dt, !.active = FALSE,
                         !.cooldownTimer = Pick(h.spikeCooldowns, long)]
         ELSE [sp EXCEPT !.timer = @ - dt]

\* the draws of Math.random() in one Arena.update: whether spawnHazards spawns, the <<size, speed, x>> of
\* the rock, and the end of the range a duration is drawn at
ArenaDraws == [spawn : BOOLEAN, rock : {<<20, 100, 0>>, <<40, 200, 760>>}, long : BOOLEAN]

\* Arena.update(deltaTime) with no grounded combatant among the game objects:
\* spawnHazards, updateHazards, then the lava floor, the wind gusts and the
\* spikes; a TypeError leaves what was assigned before it
ArenaUpdate(a, dt, r) ==
    LET h == HazardConfig(a.type, a.build)
        a0 == [a EXCEPT !.hazardSpawnTimer = @ + dt]
        sp == SpawnHazards(a0, r.spawn, r.rock)
    IN IF sp.thrown THEN sp
       ELSE LET a1 == UpdateHazards(sp.a, dt)
                a2 == [a1 EXCEPT !.lava = IF @.on THEN UpdateLavaFloor(@, h, dt) ELSE @]
                w == IF a2.wind.on THEN UpdateWindGusts(a2.wind, h, dt, r.long)
                     ELSE [w |-> a2.wind, thrown |-> FALSE]
                a3 == [a2 EXCEPT !.wind = w.w]
            IN IF w.thrown THEN [a |-> a3, thrown |-> TRUE]
               ELSE [a |-> [a3 EXCEPT !.spikes = [i \in DOMAIN @ |-> UpdateSpike(@[i], h, dt, r.long)]],
                     thrown |-> FALSE]

(***************************************************************************)
(* PhysicsEngine on bodies with geometry.  Positions and velocities are in *)
(* 1/PhysScale pixel (per second), deltaTime in whole seconds; the bodies   *)
(* are made with friction 1 and restitution 1 and with masses 1 and 3, so   *)
(* that every product and quotient the engine forms is exact on this grid.  *)
(* w is the engine: its two bodies in insertion order, with the positions   *)
(* before the last operation (was), those after its integration (mid) and   *)
(* the collision data of the pair it resolved (contact); enters counts the   *)
(* onTriggerEnter calls of the last operation                               *)
(***************************************************************************)
PhysScale == 4096
gravity == 980
margin == 10

RECURSIVE Pow(_, _)
Pow(f, dt) == IF dt = 0 THEN 1 ELSE f * Pow(f, dt - 1)

\* PhysicsEngine.createBody(id, config): width and height by default
CreateBody(id, x, y, mass, isStatic, isTrigger) ==
    [id |-> id, x |-> x * PhysScale, y |-> y * PhysScale,
     width |-> 32 * PhysScale, height |-> 32 * PhysScale, vx |-> 0, vy |-> 0,
     mass |-> mass, restitution |-> 1, friction |-> 1, isStatic |-> isStatic,
     isTrigger |-> isTrigger, grounded |-> FALSE, collidingWith |-> {}]

NoContact == [resolved |-> FALSE, overlap |-> 0, normalX |-> 0, normalY |-> 0]
Positions(bs) == [i \in DOMAIN bs |-> [x |-> bs[i].x, y |-> bs[i].y]]
NoWorld == [bodies |-> <<>>, was |-> <<>>, mid |-> <<>>, contact |-> NoContact, enters |-> 0]

\* PhysicsEngine.constrainToArena(body)
ConstrainToArena(b) ==
    LET lo == margin * PhysScale
        right == (arenaWidth - margin) * PhysScale
        floor == (arenaHeight - margin) * PhysScale
        b1 == IF b.x < lo THEN [b EXCEPT !.x = lo, !.vx = Abs(@) * b.restitution] ELSE b
        b2 == IF b1.x + b1.width > right
              THEN [b1 EXCEPT !.x = right - b1.width, !.vx = 0 - Abs(@) * b1.restitution]
              ELSE b1
        b3 == IF b2.y < lo THEN [b2 EXCEPT !.y = lo, !.vy = Abs(@) * b2.restitution] ELSE b2
    IN IF b3.y + b3.height > floor
       THEN [b3 EXCEPT !.y = floor - b3.height, !.vy = 0, !.grounded = TRUE]
       ELSE b3

\* PhysicsEngine.updateBody(body, deltaTime)
UpdateBody(b, dt) ==
    IF b.isStatic THEN b
    ELSE LET g == IF ~b.grounded /\ b.mass > 0
                  THEN [b EXCEPT !.vy = @ + gravity * PhysScale * dt] ELSE b
             f == [g EXCEPT !.vx = @ * Pow(g.friction, dt)]
             p == [f EXCEPT !.x = @ + f.vx * dt, !.y = @ + f.vy * dt]
         IN [ConstrainToArena(p) EXCEPT !.grounded = FALSE]

\* PhysicsEngine.checkRectangleCollision(rectA, rectB)
CheckRectangleCollision(a, b) ==
    /\ a.x < b.x + b.width
    /\ a.x + a.width > b.x
    /\ a.y < b.y + b.height
    /\ a.y + a.height > b.y

\* PhysicsEngine.calculateCollisionData(bodyA, bodyB); the widths are even
CalculateCollisionData(a, b) ==
    LET dx == (b.x + b.width \div 2) - (a.x + a.width \div 2)
        dy == (b.y + b.height \div 2) - (a.y + a.height \div 2)
        overlapX == (a.width + b.width) \div 2 - Abs(dx)
        overlapY == (a.height + b.height) \div 2 - Abs(dy)
    IN IF overlapX < overlapY
       THEN [resolved |-> TRUE, overlap |-> overlapX,
             normalX |-> IF dx < 0 THEN 0 - 1 ELSE 1, normalY |-> 0]
       ELSE [resolved |-> TRUE, overlap |-> overlapY,
             normalX |-> 0, normalY |-> IF dy < 0 THEN 0 - 1 ELSE 1]

\* PhysicsEngine.separateBodies(bodyA, bodyB, collision), as the pair it leaves
SeparateBodiesMut(a, b, c) ==
    LET totalMass == a.mass + b.mass
        separationA == (a.mass * c.overlap) \div totalMass
        separationB == (b.mass * c.overlap) \div totalMass
    IN << IF a.isStatic THEN a
          ELSE [a EXCEPT !.x = @ - separationA * c.normalX, !.y = @ - separationA * c.normalY],
          IF b.isStatic THEN b
          ELSE [b EXCEPT !.x = @ + separationB * c.normalX, !.y = @ + separationB * c.normalY] >>
SeparateBodies(a, b, c) ==
    LET totalMass == a.mass + b.mass
        separationA == IF b.isStatic THEN c.overlap ELSE (b.mass * c.overlap) \div totalMass
        separationB == IF a.isStatic THEN c.overlap ELSE (a.mass * c.overlap) \div totalMass
    IN << IF a.isStatic THEN a
          ELSE [a EXCEPT !.x = @ - separationA * c.normalX, !.y = @ - separationA * c.normalY],
          IF b.isStatic THEN b
          ELSE [b EXCEPT !.x = @ + separationB * c.normalX, !.y = @ + separationB * c.normalY] >>

\* PhysicsEngine.applyCollisionResponse(bodyA, bodyB, collision)
ApplyCollisionResponse(a, b, c) ==
    LET velAlongNormal == (b.vx - a.vx) * c.normalX + (b.vy - a.vy) * c.normalY
        restitution == Min(a.restitution, b.restitution)
        impulse == 0 - (1 + restitution) * velAlongNormal
        totalMass == a.mass + b.mass
    IN IF velAlongNormal > 0 THEN <<a, b>>
       ELSE << IF a.isStatic THEN a
               ELSE [a EXCEPT !.vx = @ - ((impulse * b.mass) \div totalMass) * c.normalX,
                              !.vy = @ - ((impulse * b.mass) \div totalMass) * c.normalY,
                              !.grounded = IF c.normalY < 0 THEN TRUE ELSE @],
               IF b.isStatic THEN b
               ELSE [b EXCEPT !.vx = @ + ((impulse * a.mass) \div totalMass) * c.normalX,
                              !.vy = @ + ((impulse * a.mass) \div totalMass) * c.normalY,
                              !.grounded = IF c.normalY > 0 THEN TRUE ELSE @] >>

\* PhysicsEngine.resolveCollision(bodyA, bodyB) with handleTriggerCollision;
\* the bodies have no callbacks
ResolveCollision(a, b) ==
    IF a.isTrigger
    THEN [bodies |-> <<[a EXCEPT !.collidingWith = @ \cup {b.id}], b>>, contact |-> NoContact,
          enters |-> IF b.id \in a.collidingWith THEN 0 ELSE 1]
    ELSE IF b.isTrigger
    THEN [bodies |-> <<a, [b EXCEPT !.collidingWith = @ \cup {a.id}]>>, contact |-> NoContact,
          enters |-> IF a.id \in b.collidingWith THEN 0 ELSE 1]
    ELSE IF a.isStatic /\ b.isStatic THEN [bodies |-> <<a, b>>, contact |-> NoContact, enters |-> 0]
    ELSE LET a1 == [a EXCEPT !.collidingWith = IF b.id \in @ THEN @ ELSE @ \cup {b.id}]
             b1 == [b EXCEPT !.collidingWith = IF b.id \in a.collidingWith THEN @ ELSE @ \cup {a.id}]
             c == CalculateCollisionData(a1, b1)
             sep == SeparateBodies(a1, b1, c)
         IN IF c.overlap > 0
            THEN [bodies |-> ApplyCollisionResponse(sep[1], sep[2], c), contact |-> c, enters |-> 0]
            ELSE [bodies |-> <<a1, b1>>, contact |-> NoContact, enters |-> 0]

\* PhysicsEngine.update(deltaTime) and checkCollisions on the two bodies
PhysicsUpdate(w, dt) ==
    LET moved == [i \in DOMAIN w.bodies |-> UpdateBody(w.bodies[i], dt)]
        res == IF CheckRectangleCollision(moved[1], moved[2])
               THEN ResolveCollision(moved[1], moved[2])
               ELSE [bodies |-> moved, contact |-> NoContact, enters |-> 0]
    IN [bodies |-> res.bodies, was |-> Positions(w.bodies), mid |-> Positions(moved),
        contact |-> res.contact, enters |-> res.enters]

\* PhysicsEngine.applyForce(id, forceX, forceY) on the i-th body
ApplyForce(w, i, force) ==
    [w EXCEPT !.bodies[i] = IF @.isStatic THEN @
                            ELSE [@ EXCEPT !.vx = @ + (force[1] * PhysScale) \div w.bodies[i].mass,
                                           !.vy = @ + (force[2] * PhysScale) \div w.bodies[i].mass],
              !.was = Positions(w.bodies), !.mid = Positions(w.bodies), !.contact = NoContact,
              !.enters = 0]

\* PhysicsEngine.applyImpulse(id, impulseX, impulseY) on the i-th body
ApplyImpulse(w, i, impulse) ==
    [w EXCEPT !.bodies[i] = IF @.isStatic THEN @
                            ELSE [@ EXCEPT !.vx = @ + impulse[1] * PhysScale,
                                           !.vy = @ + impulse[2] * PhysScale],
              !.was = Positions(w.bodies), !.mid = Positions(w.bodies), !.contact = NoContact,
              !.enters = 0]

(***************************************************************************)
(* ProgressionSystem: the player data p                                    *)
(***************************************************************************)
\* the ranks of initializeRanks() in the order of its table, with minPoints,
\* maxPoints and rewards.coins
Ranks == <<"Bronze", "Silver", "Gold", "Platinum", "Diamond", "Mythic">>
RankData ==
    [Bronze   |-> [minPoints |-> 0, maxPoints |-> 999, coins |-> 100],
     Silver   |-> [minPoints |-> 1000, maxPoints |-> 2499, coins |-> 200],
     Gold     |-> [minPoints |-> 2500, maxPoints |-> 4999, coins |-> 300],
     Platinum |-> [minPoints |-> 5000, maxPoints |-> 7499, coins |-> 400],
     Diamond  |-> [minPoints |-> 7500, maxPoints |-> 9999, coins |-> 500],
     Mythic   |-> [minPoints |-> 10000, maxPoints |-> 999999, coins |-> 1000]]

\* getDefaultPlayerData(). rankRewards is not a field of the code: how often
\* rankUp has given out the rewards of each rank
NewProgress ==
    [level |-> 1, xp |-> 0, totalXP |-> 0, coins |-> 0,
     rank |-> "Bronze", rankPoints |-> 0, gamesPlayed |-> 0, gamesWon |-> 0,
     rankRewards |-> [i \in DOMAIN Ranks |-> 0]]

\* Math.floor(Math.sqrt(x)) of a whole number x
FloorSqrt(x) == CHOOSE k \in 0..x : k * k <= x /\ x < (k + 1) * (k + 1)

\* ProgressionSystem.calculateLevel(totalXP) of a whole number of XP
CalculateLevelMut(totalXP) == FloorSqrt(totalXP \div 100)
CalculateLevel(totalXP) == FloorSqrt(totalXP \div 100) + 1

\* ProgressionSystem.levelUp(newLevel) with addCoins(newLevel * 10)
LevelUp(p, newLevel) == [p EXCEPT !.level = newLevel, !.coins = @ + newLevel * 10]

\* ProgressionSystem.addXP(amount)
AddXP(p, amount) ==
    LET q == [p EXCEPT !.xp = @ + amount, !.totalXP = @ + amount]
        newLevel == CalculateLevel(q.totalXP)
    IN IF newLevel > q.level THEN LevelUp(q, newLevel) ELSE q

\* ProgressionSystem.getRankOrder(rank), from 1
RankOrder(rank) == CHOOSE i \in DOMAIN Ranks : Ranks[i] = rank

\* ProgressionSystem.calculateRank(points)
CalculateRank(points) ==
    LET fits == {i \in DOMAIN Ranks : points >= RankData[Ranks[i]].minPoints
                                      /\ points <= RankData[Ranks[i]].maxPoints}
    IN IF fits = {} THEN "Bronze" ELSE Ranks[CHOOSE i \in fits : \A j \in fits : i <= j]

\* ProgressionSystem.rankUp(newRank): the rewards of the new rank (its coins
\* by addCoins; its character and arena are unlocked with them)
RankUp(p, newRank) ==
    [p EXCEPT !.rank = newRank,
              !.coins = @ + RankData[newRank].coins,
              !.rankRewards[RankOrder(newRank)] = @ + 1]

\* ProgressionSystem.addRankPoints(points)
AddRankPoints(p, points) ==
    LET q == [p EXCEPT !.rankPoints = @ + points]
        newRank == CalculateRank(q.rankPoints)
    IN IF newRank # q.rank THEN RankUp(q, newRank) ELSE q

\* ProgressionSystem.recordBattleResult(battleResult)
RecordBattleResult(p, result) ==
    IF result = "victory"
    THEN AddRankPoints([p EXCEPT !.gamesPlayed = @ + 1, !.gamesWon = @ + 1], 25)
    ELSE AddRankPoints([p EXCEPT !.gamesPlayed = @ + 1], 0 - 10)

(***************************************************************************)
(* BattleSystem.aiState and .battleStats, MatchmakingSystem                 *)
(***************************************************************************)
\* the aiState startOpponentAI() makes: the four timers count the callbacks
\* of 0.1 s added to them since they were last set to 0. fired, issued and
\* took are not fields of the code: the rule of makeAIDecision that fired in
\* the last decision, the methods of the opponent that decision called, and
\* what the method its rule requested returned
NewAIState ==
    [attackTimer |-> 0, moveTimer |-> 0, blockTimer |-> 0, dashTimer |-> 0,
     moveDirection |-> 1, lastAction |-> "none",
     fired |-> "none", issued |-> {}, took |-> TRUE]

\* battleStats as the constructor and startBattle() set it; damage in 1/HpScale
\* HP. playerRemoved and opponentRemoved are not fields of the code: the
\* health each side's attacks have taken from the other combatant
NewBattleStats ==
    [playerDamageDealt |-> 0, playerHitsLanded |-> 0,
     opponentDamageDealt |-> 0, opponentHitsLanded |-> 0,
     playerRemoved |-> 0, opponentRemoved |-> 0]

\* the matchmaking system after construction. search numbers the calls of
\* startMatchmaking that began a search; pending holds the callbacks of a
\* search that are still to run; cancelled and started say which searches
\* cancelMatchmaking has ended and which match each call of startMatch began
NewMatchmaking ==
    [isSearching |-> FALSE, currentQueue |-> "none", search |-> 0,
     pending |-> {}, cancelled |-> {}, started |-> {}]

(***************************************************************************)
(* BattleSystem and GameEngine: operations on the program state s          *)
(***************************************************************************)
\* BattleSystem.endBattle(result)
EndBattleMut(s, result) ==
    IF ~s.isActive THEN s
    ELSE [s EXCEPT !.battleResult = result,
                   !.intervals = @ \ {s.aiUpdateTimer},
                   !.aiUpdateTimer = 0,
                   !.isRunning = FALSE,
                   !.isPlaying = FALSE,
                   !.reports = @ + 1]
EndBattle(s, result) ==
    IF ~s.isActive THEN s
    ELSE [s EXCEPT !.isActive = FALSE,
                   !.battleResult = result,
                   !.intervals = @ \ {s.aiUpdateTimer},
                   !.aiUpdateTimer = 0,
                   !.isRunning = FALSE,
                   !.isPlaying = FALSE,
                   !.reports = @ + 1]

\* BattleSystem.handleCharacterDeath(detail)
HandleCharacterDeath(s, c) ==
    IF ~s.isActive THEN s
    ELSE [EndBattle(s, IF c = "player" THEN "defeat" ELSE "victory") EXCEPT !.endCause = "death"]

\* Character.die(), with the characterDeath event it dispatches; deaths counts
\* the events dispatched for the combatant
DieMut(s, c) ==
    HandleCharacterDeath(
        [s EXCEPT !.ch = [@ EXCEPT ![c].health = 0, ![c].vx = 0, ![c].deaths = @ + 1]], c)
Die(s, c) ==
    HandleCharacterDeath(
        [s EXCEPT !.ch = [@ EXCEPT ![c].isDead = TRUE, ![c].health = 0,
                                   ![c].vx = 0, ![c].deaths = @ + 1]], c)

\* Character.update(deltaTime)
CharacterUpdate(s, c, dt) ==
    IF s.ch[c].isDead THEN s
    ELSE LET s1 == [s EXCEPT !.ch = [@ EXCEPT ![c] = UpdateTimers(@, dt)]]
         IN IF s1.ch[c].health <= 0 /\ ~s1.ch[c].isDead THEN Die(s1, c) ELSE s1

\* BattleSystem.handleBattleEnd(detail)
HandleBattleEnd(s, winner) ==
    IF ~s.isActive THEN s
    ELSE [EndBattle(s, CASE winner = "player" -> "victory"
                         [] winner = "opponent" -> "defeat"
                         [] OTHER -> "draw")
          EXCEPT !.endCause = "timeout"]

\* GameEngine.endBattle(): the winner it writes to gameState.winner
WinnerByHealthMut(player, opponent) ==
    IF player.health >= opponent.health THEN "player"
    ELSE "opponent"
WinnerByHealth(player, opponent) ==
    IF player.health > opponent.health THEN "player"
    ELSE IF opponent.health > player.health THEN "opponent"
    ELSE "draw"

\* GameEngine.endBattle()
GameEndBattle(s) ==
    LET w == WinnerByHealth(s.ch["player"], s.ch["opponent"])
    IN HandleBattleEnd([s EXCEPT !.isPlaying = FALSE, !.winner = w], w)

\* the timer block of GameEngine.update(deltaTime)
UpdateGameTimer(s, dt) ==
    IF s.isPlaying /\ s.timeRemaining > 0
    THEN IF s.timeRemaining - dt <= 0
         THEN GameEndBattle([s EXCEPT !.timeRemaining = 0])
         ELSE [s EXCEPT !.timeRemaining = @ - dt]
    ELSE s

\* the game objects of GameEngine.gameObjects in the order of insertion: the
\* combatants, the projectiles they made, and the arena when loadArena added
\* it after the last reset()
ObjectsIn(s) ==
    [i \in 1..Len(s.gameObjects) |-> s.gameObjects[i]]
        \o (IF s.projectiles = {} THEN <<>> ELSE <<"projectile">>)
        \o (IF s.arenaAdded THEN <<"arena">> ELSE <<>>)

\* the update(deltaTime) of the combatants and projectiles among the game
\* objects, the projectiles as the set projectiles and, where a match keeps
\* them so, as the entries of projectileObjects
ObjectsUpdate(s, dt) ==
    LET s1 == IF Len(s.gameObjects) = 0 THEN s
              ELSE CharacterUpdate(CharacterUpdate(s, "player", dt), "opponent", dt)
    IN ProjectileObjectsUpdate(ProjectilesUpdate(s1, dt), dt)

\* GameEngine.update(deltaTime): the game objects in insertion order, then the
\* timer; tick lists what ran. r are the draws of Arena.update
GameUpdate(s, dt, r) ==
    LET s1 == [ObjectsUpdate(s, dt) EXCEPT !.tick = ObjectsIn(s)]
        au == ArenaUpdate(s1.arena, dt, r)
        s2 == IF s.arenaAdded THEN [s1 EXCEPT !.arena = au.a] ELSE s1
        s3 == UpdateGameTimer(s2, dt)
    IN IF s2.isPlaying /\ s2.timeRemaining > 0 THEN [s3 EXCEPT !.tick = Append(@, "countdown")]
       ELSE s3

playerStartX == 150
opponentStartX == arenaWidth - 190

\* GameEngine.start(): the guard on isRunning
AlreadyRunning(s) == s.isRunning

\* ArenaSystem.createArena(type) and CharacterSystem.createCharacter(id, type):
\* for a type that is no key of the table the data read from the table is
\* undefined, the type is replaced, and reading .name of the data throws
ArenaKnown(type) == type \in ArenaTypes
CharacterKnown(type) == type \in CharacterTypes

\* ArenaSystem.loadArena(type), called by the match owner: destroy() of the
\* current arena, createArena, init() and addGameObject('arena')
LoadArena(s, type, owner) ==
    LET s0 == IF s.arena.type = "none" THEN s
              ELSE [s EXCEPT !.bodies = ArenaDestroy(@, s.arena), !.arena.rocks = {}]
        made == ArenaInit(type, "system", owner, <<>>)
        s1 == [s0 EXCEPT !.arena = made.a, !.bodies = CreatePlatforms(@, made.a)]
    IN IF ~ArenaKnown(type) THEN [s |-> s0, thrown |-> TRUE]
       ELSE IF made.thrown THEN [s |-> s1, thrown |-> TRUE]
       ELSE [s |-> [s1 EXCEPT !.arenaAdded = TRUE], thrown |-> FALSE]

\* BattleSystem.startBattle(config): loadArena, createPlayer, createOpponent
\* with startOpponentAI, gameEngine.reset(), addGameObject twice and
\* gameEngine.start(), then the battleStarted event that makes the screen
\* manager show the game screen. The opponent's type is a key of characterTypes
\* (getRandomOpponentCharacter, or the opponent the matchmaking made); the
\* arena's and the player's come from localStorage
StartBattleIn(s, arenaType, playerType, opponentType) ==
    LET id == s.matchId + 1
        s1 == [s EXCEPT !.matchId = id,
                        !.isActive = TRUE,
                        !.battleResult = "none",
                        !.endCause = "none",
                        !.elapsed = 0,
                        !.calls = 0,
                        !.reports = 0,
                        !.thrown = "none",
                        !.battleStats = NewBattleStats,
                        !.tick = <<>>,
                        !.request = [arena |-> arenaType, player |-> playerType,
                                     opponent |-> opponentType]]
        la == LoadArena(s1, arenaType, id)
        s2 == [la.s EXCEPT !.ch = [c \in Combatants |->
                                      IF c = "player" THEN NewCharacter(playerType, playerStartX, 0)
                                      ELSE NewCharacter(opponentType, opponentStartX, 0)],
                           !.bodies = PutBody(PutBody(@, "player", 0, id), "opponent", 0, id),
                           !.spawned = Combatants,
                           !.aiUpdateTimer = id,
                           !.intervals = @ \cup {id},
                           !.aiState = NewAIState,
                           !.projectiles = {},
                           !.projectileObjects = {},
                           !.gameObjects = <<"player", "opponent">>,
                           !.arenaAdded = FALSE,
                           !.isPlaying = FALSE,
                           !.isPaused = FALSE,
                           !.winner = "none",
                           !.timeRemaining = maxBattleTime]
    IN IF la.thrown \/ ~CharacterKnown(playerType) THEN [la.s EXCEPT !.thrown = "startBattle"]
       ELSE IF AlreadyRunning(s2) THEN [s2 EXCEPT !.currentScreen = "gameScreen"]
       ELSE [s2 EXCEPT !.isRunning = TRUE, !.isPlaying = TRUE, !.loops = @ + 1,
                       !.currentScreen = "gameScreen"]

\* startBattle as the battle button and the matchmaking call it while 'basic'
\* is the one arena unlocked
StartBattle(s, playerType, opponentType) == StartBattleIn(s, "basic", playerType, opponentType)

\* BattleSystem.quitBattle()
QuitBattle(s) ==
    [(IF s.isActive THEN [EndBattle(s, "defeat") EXCEPT !.endCause = "quit"] ELSE s)
     EXCEPT !.currentScreen = "mainMenu"]

\* BattleSystem.pauseBattle() with GameEngine.togglePause()
PauseBattle(s) ==
    IF s.isActive THEN [s EXCEPT !.isPaused = ~@] ELSE s


\* the setTimeout callbacks of attack(), dash() and rage()
AttackTimeout(chs, c) ==
    [chs EXCEPT ![c].isAttacking = FALSE, ![c].attackEnd = FALSE, ![c].attackDue = {}]
DashTimeout(chs, c) ==
    [chs EXCEPT ![c].isDashing = FALSE, ![c].dashEnd = FALSE, ![c].dashDue = {}]
RageTimeout(chs, c) == [chs EXCEPT ![c].rageActive = FALSE, ![c].rageEnd = FALSE]

\* the timeouts that come due while dt quanta of frames go by
TimeoutsDue(chs, dt) ==
    [c \in Combatants |->
        LET c1 == IF chs[c].attackEnd /\ attackDelay <= dt THEN AttackTimeout(chs, c) ELSE chs
            c2 == IF c1[c].dashEnd /\ dashDelay <= dt THEN DashTimeout(c1, c) ELSE c1
            c3 == IF c2[c].rageEnd /\ rageDelay <= dt THEN RageTimeout(c2, c) ELSE c2
        IN c3[c]]

\* the setTimeout callbacks of attack() and dash() that come due while w
\* quanta go by on the clock, each at its own time
TimersElapse(chs, w) ==
    [c \in Combatants |->
        [chs[c] EXCEPT
            !.attackDue = {d - w : d \in {e \in @ : e > w}},
            !.attackEnd = \E d \in chs[c].attackDue : d > w,
            !.isAttacking = IF \E d \in chs[c].attackDue : d <= w THEN FALSE ELSE @,
            !.dashDue = {d - w : d \in {e \in @ : e > w}},
            !.dashEnd = \E d \in chs[c].dashDue : d > w,
            !.isDashing = IF \E d \in chs[c].dashDue : d <= w THEN FALSE ELSE @]]

\* GameEngine.gameLoop() over a run of requestAnimationFrame callbacks: a loop
\* that finds isRunning cleared ends, any other reschedules itself
\* An exception that Arena.update throws leaves gameLoop before it reschedules
\* itself: the frame that throws has updated the objects before the arena
\* and nothing after it, and the loop is gone while isRunning stays set
ArenaThrows(s, r) == s.arenaAdded /\ ArenaUpdate(s.arena, 1, r).thrown

GameLoopThrown(s, r) ==
    [ObjectsUpdate([s EXCEPT !.ch = TimeoutsDue(@, 1)], 1)
     EXCEPT !.arena = ArenaUpdate(s.arena, 1, r).a,
            !.tick = ObjectsIn(s),
            !.thrown = "gameLoop",
            !.loops = @ - 1]

GameLoop(s, dt, r) ==
    IF ~s.isRunning THEN [s EXCEPT !.loops = @ - 1]
    ELSE IF s.isPaused THEN [s EXCEPT !.ch = TimeoutsDue(@, dt)]
    ELSE IF ArenaThrows(s, r) THEN GameLoopThrown(s, r)
    ELSE GameUpdate([s EXCEPT !.ch = TimeoutsDue(@, dt),
                              !.elapsed = Min(@ + dt, maxBattleTime + FrameRun)], dt, r)

\* a call made for the combatant c, applied to the program state
Called(s, r) == [s EXCEPT !.ch = r.chs, !.projectiles = @ \cup r.spawned]

AttackTypes == {"light", "heavy", "special"}

AttackOf(chs, c, type) ==
    CASE type = "light" -> LightAttack(chs, c)
      [] type = "heavy" -> HeavyAttack(chs, c)
      [] OTHER          -> SpecialAttack(chs, c)

\* BattleSystem.makeAIDecision: the draws of Math.random() and the state of the
\* four decision timers are the choices d of one decision: whether the block
\* timer has run out, and the rule the draws and the other timers let through
AIChoices ==
    [blockReady : BOOLEAN,
     rule : {"block", "dash", "light", "heavy", "special", "strafeLeft", "strafeRight", "idle"}]

DuelChoices == {d \in AIChoices : d.rule \in DuelRules}

MakeAIDecision(s, d) ==
    LET player == s.ch["player"]
        distance == Abs(player.x - s.ch["opponent"].x)
        isPlayerLeft == player.x < s.ch["opponent"].x
        threatened == player.isAttacking /\ distance < 80 /\ d.blockReady
        c0 == IF threatened THEN s.ch ELSE StopBlock(s.ch, "opponent")
        toward == IF isPlayerLeft THEN 0 - 1 ELSE 1
        dashDirection == IF distance > 150 THEN toward ELSE 0 - toward
        moveX == IF distance > 100 THEN toward * 70
                 ELSE IF distance < 50 THEN (0 - toward) * 50
                 ELSE IF d.rule = "strafeLeft" THEN 0 - 30 ELSE 30
    IN IF threatened /\ d.rule = "block" THEN Called(s, StartBlock(s.ch, "opponent"))
       ELSE IF d.rule = "dash" THEN Called(s, Dash(c0, "opponent", dashDirection))
       ELSE IF distance < 50 + 20 /\ d.rule \in AttackTypes
            THEN Called(s, AttackOf(c0, "opponent", d.rule))
       ELSE IF d.rule \in {"strafeLeft", "strafeRight"}
            THEN [s EXCEPT !.ch = Move(c0, "opponent", moveX)]
       ELSE [s EXCEPT !.ch = c0]

\* BattleSystem.updateOpponentAI(): the guard of the interval callback
AIIdle(s) == ~s.isActive \/ s.spawned # Combatants \/ s.ch["opponent"].isDead

UpdateOpponentAI(s, d) == IF AIIdle(s) THEN s ELSE MakeAIDecision(s, d)

(***************************************************************************)
(* The state machine                                                       *)
(***************************************************************************)
VARIABLES
    ch,             \* battleSystem.player and .opponent (meaningful once matchId > 0)
    isActive,       \* battleSystem.isActive
    battleResult,   \* battleSystem.battleResult
    aiUpdateTimer,  \* battleSystem.aiUpdateTimer: the interval it holds, 0 for none
    intervals,      \* the setInterval timers still installed, named by the match that made them
    isRunning,      \* gameEngine.isRunning
    isPlaying,      \* gameEngine.gameState.isPlaying
    isPaused,       \* gameEngine.gameState.isPaused
    timeRemaining,  \* gameEngine.gameState.timeRemaining
    winner,         \* gameEngine.gameState.winner
    projectiles,    \* the projectile objects in gameEngine.gameObjects
    loops,          \* requestAnimationFrame callbacks of gameLoop still scheduled
    matchId,        \* number of matches started so far
    reports,        \* the battleComplete events dispatched for the current match
    endCause,       \* what ended the current match
    elapsed,        \* simulated time the current match has run
    calls,          \* input events and AI callbacks handled in the current match
    bodies,         \* physicsEngine.bodies
    arena,          \* arenaSystem.currentArena
    gameObjects,    \* the combatants in gameEngine.gameObjects, in insertion order
    arenaAdded,     \* whether gameEngine.gameObjects holds the arena
    spawned,        \* which of battleSystem.player and .opponent are set
    thrown,         \* the handler an exception has left since the last startBattle
    request,        \* the config of the last startBattle
    tick,           \* what the last GameEngine.update ran, in order
    world,          \* the bodies of a physics engine with their geometry, in insertion order
    progress,       \* progressionSystem.playerData
    aiState,        \* battleSystem.aiState, with what the last decision cycle did
    battleStats,    \* battleSystem.battleStats
    currentScreen,  \* screenManager.currentScreen
    projectileObjects, \* the entries createProjectile put in gameEngine.gameObjects
    matchmaking,    \* matchmakingSystem, with the callbacks still pending for it
    last            \* the call observed last: the AI callback that acted last in the match,
                    \* with the interval it came from

vars == <<ch, isActive, battleResult, aiUpdateTimer, intervals, isRunning, isPlaying,
          isPaused, timeRemaining, winner, projectiles, loops, matchId, reports,
          endCause, elapsed, calls, bodies, arena, gameObjects, arenaAdded, spawned,
          thrown, request, tick, world, progress, aiState, battleStats, currentScreen,
          projectileObjects, matchmaking, last>>

State ==
    [ch |-> ch, isActive |-> isActive, battleResult |-> battleResult,
     aiUpdateTimer |-> aiUpdateTimer, intervals |-> intervals, isRunning |-> isRunning,
     isPlaying |-> isPlaying, isPaused |-> isPaused, timeRemaining |-> timeRemaining,
     winner |-> winner, projectiles |-> projectiles, loops |-> loops, matchId |-> matchId,
     reports |-> reports, endCause |-> endCause, elapsed |-> elapsed, calls |-> calls,
     bodies |-> bodies, arena |-> arena, gameObjects |-> gameObjects,
     arenaAdded |-> arenaAdded, spawned |-> spawned, thrown |-> thrown,
     request |-> request, tick |-> tick, world |-> world, progress |-> progress,
     aiState |-> aiState, battleStats |-> battleStats, currentScreen |-> currentScreen,
     projectileObjects |-> projectileObjects, matchmaking |-> matchmaking]

Become(s) ==
    /\ ch' = s.ch
    /\ isActive' = s.isActive
    /\ battleResult' = s.battleResult
    /\ aiUpdateTimer' = s.aiUpdateTimer
    /\ intervals' = s.intervals
    /\ isRunning' = s.isRunning
    /\ isPlaying' = s.isPlaying
    /\ isPaused' = s.isPaused
    /\ timeRemaining' = s.timeRemaining
    /\ winner' = s.winner
    /\ projectiles' = s.projectiles
    /\ loops' = s.loops
    /\ matchId' = s.matchId
    /\ reports' = s.reports
    /\ endCause' = s.endCause
    /\ elapsed' = s.elapsed
    /\ calls' = s.calls
    /\ bodies' = s.bodies
    /\ arena' = s.arena
    /\ gameObjects' = s.gameObjects
    /\ arenaAdded' = s.arenaAdded
    /\ spawned' = s.spawned
    /\ thrown' = s.thrown
    /\ request' = s.request
    /\ tick' = s.tick
    /\ world' = s.world
    /\ progress' = s.progress
    /\ aiState' = s.aiState
    /\ battleStats' = s.battleStats
    /\ currentScreen' = s.currentScreen
    /\ projectileObjects' = s.projectileObjects
    /\ matchmaking' = s.matchmaking

Ran(op, who, ret, owner) == last' = [op |-> op, who |-> who, ret |-> ret, owner |-> owner]

\* the physics engine, the arena system and the game objects after construction
NoRequest == [arena |-> "none", player |-> "none", opponent |-> "none"]
Unloaded ==
    /\ bodies = {}
    /\ arena = NoArena
    /\ gameObjects = <<>>
    /\ arenaAdded = FALSE
    /\ spawned = {}
    /\ thrown = "none"
    /\ request = NoRequest
    /\ tick = <<>>

\* the AI state (unset until startOpponentAI), the battle statistics, the
\* screen manager and the matchmaking system after construction
Constructed ==
    /\ aiState = NewAIState
    /\ battleStats = NewBattleStats
    /\ currentScreen = "loadingScreen"
    /\ projectileObjects = {}
    /\ matchmaking = NewMatchmaking

\* the battle system and the game engine after construction
NoBattle ==
    /\ ch = [c \in Combatants |-> NewCharacter("ninja", 0, 0)]
    /\ isActive = FALSE
    /\ battleResult = "none"
    /\ aiUpdateTimer = 0
    /\ intervals = {}
    /\ isRunning = FALSE
    /\ isPlaying = FALSE
    /\ isPaused = FALSE
    /\ timeRemaining = maxBattleTime
    /\ winner = "none"
    /\ projectiles = {}
    /\ loops = 0
    /\ matchId = 0
    /\ reports = 0
    /\ endCause = "none"
    /\ elapsed = 0
    /\ calls = 0
    /\ last = [op |-> "init", who |-> "none", ret |-> TRUE, owner |-> 0]

Init == NoBattle /\ Unloaded /\ world = NoWorld /\ progress = NewProgress /\ Constructed

\* matchmaking or the battle button: battleSystem.startBattle(config)
StartBattleOf(lineups, matches) ==
    /\ matchId < matches
    /\ \E l \in lineups : Become(StartBattle(State, l[1], l[2]))
    /\ Ran("startBattle", "none", TRUE, 0)

DoStartBattle == StartBattleOf(Lineups, MaxMatches)

\* BattleSystem.rematch()
DoRematch ==
    /\ spawned = Combatants
    /\ matchId < MaxMatches
    /\ Become(StartBattleIn(State, arena.type, ch["player"].type, ch["opponent"].type))
    /\ Ran("startBattle", "none", TRUE, 0)

DoQuitBattle ==
    /\ Become(QuitBattle(State))
    /\ UNCHANGED last

DoPauseBattle ==
    /\ Become(PauseBattle(State))
    /\ UNCHANGED last

\* a requestAnimationFrame callback
Frame ==
    /\ loops > 0
    /\ arena.hazardSpawnTimer < MaxArenaTime
    /\ \E r \in ArenaDraws : Become(GameLoop(State, FrameRun, r))
    /\ UNCHANGED last

\* a callback of the setInterval installed by startOpponentAI of match m
AITickOf(m, choices, budget) ==
    /\ m \in intervals
    /\ calls < budget
    /\ \E d \in choices : Become([UpdateOpponentAI(State, d) EXCEPT !.calls = @ + 1])
    /\ IF AIIdle(State) THEN UNCHANGED last ELSE Ran("updateOpponentAI", "opponent", TRUE, m)

AITick(m) == AITickOf(m, AIChoices, MaxCalls)

\* a setTimeout callback of attack(), dash() or rage() on the combatant c
AttackEnd(c) ==
    /\ ch[c].attackEnd
    /\ Become([State EXCEPT !.ch = AttackTimeout(@, c)])
    /\ UNCHANGED last

DashEnd(c) ==
    /\ ch[c].dashEnd
    /\ Become([State EXCEPT !.ch = DashTimeout(@, c)])
    /\ UNCHANGED last

RageEnd(c) ==
    /\ ch[c].rageEnd
    /\ Become([State EXCEPT !.ch = RageTimeout(@, c)])
    /\ UNCHANGED last

\* the guard of the three player input handlers
PlayerIdle(s) == ~s.isActive \/ "player" \notin s.spawned

\* BattleSystem.handlePlayerAttack(detail)
HandlePlayerAttack(s, type) ==
    IF PlayerIdle(s) THEN s ELSE Called(s, AttackOf(s.ch, "player", type))

\* BattleSystem.handlePlayerBlock(detail)
HandlePlayerBlock(s, active) ==
    IF PlayerIdle(s) THEN s
    ELSE IF active THEN Called(s, StartBlock(s.ch, "player"))
    ELSE [s EXCEPT !.ch = StopBlock(@, "player")]

\* BattleSystem.handlePlayerDash(detail)
HandlePlayerDash(s, dirX) ==
    IF PlayerIdle(s) THEN s ELSE Called(s, Dash(s.ch, "player", dirX))

\* the playerAttack, playerBlock and playerDash events of the input manager
PlayerAttackOf(type, budget) ==
    /\ calls < budget
    /\ Become([HandlePlayerAttack(State, type) EXCEPT !.calls = @ + 1])
    /\ UNCHANGED last

PlayerAttack(type) == PlayerAttackOf(type, MaxCalls)

PlayerBlock(active) ==
    /\ calls < MaxCalls
    /\ Become([HandlePlayerBlock(State, active) EXCEPT !.calls = @ + 1])
    /\ UNCHANGED last

PlayerDash(dirX) ==
    /\ calls < MaxCalls
    /\ Become([HandlePlayerDash(State, dirX) EXCEPT !.calls = @ + 1])
    /\ UNCHANGED last

Next ==
    \/ DoStartBattle
    \/ DoRematch
    \/ DoQuitBattle
    \/ DoPauseBattle
    \/ Frame
    \/ \E m \in 1..MaxMatches : AITick(m)
    \/ \E type \in AttackTypes : PlayerAttack(type)
    \/ \E active \in BOOLEAN : PlayerBlock(active)
    \/ \E dirX \in {0 - 1, 1} : PlayerDash(dirX)
    \/ \E c \in Combatants : AttackEnd(c)
    \/ \E c \in Combatants : DashEnd(c)
    \/ \E c \in Combatants : RageEnd(c)

Spec == Init /\ [][Next]_vars

(***************************************************************************)
(* One match fought to its end: two ninjas that trade shadow strikes        *)
(***************************************************************************)
DuelStart == StartBattleOf(DuelLineups, 1)
DuelAITick == AITickOf(1, DuelChoices, DuelCalls)
DuelAttack == \E type \in DuelAttacks : PlayerAttackOf(type, DuelCalls)

NextDuel ==
    \/ DuelStart
    \/ DoQuitBattle
    \/ Frame
    \/ DuelAITick
    \/ DuelAttack
    \/ \E c \in Combatants : AttackEnd(c)
    \/ \E c \in Combatants : DashEnd(c)

SpecDuel == Init /\ [][NextDuel]_vars

(***************************************************************************)
(* The Character interface called directly: two combatants built side by    *)
(* side, and any sequence of their methods and of the hazard damage paths   *)
(***************************************************************************)
\* Arena.hazardConfig: fallingRocks, lavaFloor (per second), spikes
rockDamage == 20
lavaDamage == 5
spikeDamage == 15
\* Character.handleCollision: takeDamage(10, null)
collisionDamage == 10

\* lavaFloor damage of one frame of the capped length: config.damage * deltaTime
LavaFrameDamage == (lavaDamage * HpScale) \div QuantaPerSecond

HazardKinds == {"rock", "lava", "spike", "collision", "projectile"}
HazardDamage(kind) ==
    CASE kind = "rock"      -> rockDamage * HpScale
      [] kind = "lava"      -> LavaFrameDamage
      [] kind = "spike"     -> spikeDamage * HpScale
      [] kind = "collision" -> collisionDamage * HpScale
      [] OTHER              -> SpecialAbility("mage").damage

\* Arena.damageLavaVictims(deltaTime): the grounded combatants near the floor,
\* in the order of the game objects
DamageLavaVictims(chs, dt) ==
    LET burn(c1, c) == IF ~c1[c].isDead /\ c1[c].isGrounded /\ c1[c].y + charHeight >= arenaHeight - 100
                       THEN TakeDamage(c1, c, LavaFrameDamage * dt)
                       ELSE c1
    IN burn(burn(chs, "player"), "opponent")

\* PhysicsEngine.getBodiesInRadius as checkSpikeCollision calls it: the spike
\* kept at position i stands at x = 100 * i - 20, y = height - 60 and is 40 by
\* 20, and the body b is taken when its centre is within max(width, height) / 2
\* of the spike's centre
InSpike(b, i) ==
    (b.x + charWidth \div 2 - 100 * i) * (b.x + charWidth \div 2 - 100 * i)
        + (b.y + charHeight \div 2 - (arenaHeight - 50)) * (b.y + charHeight \div 2 - (arenaHeight - 50))
            <= 20 * 20

\* Arena.checkSpikeCollision(spikeIndex), over the character bodies in the
\* order of the engine's map; applyImpulse is on a body of mass 1
CheckSpikeCollisionMut(chs, i) ==
    LET spike(c1, c) == IF InSpike(c1[c], i)
                        THEN [TakeDamage(c1, c, spikeDamage * HpScale) EXCEPT ![c].vy = @ - 200]
                        ELSE c1
    IN spike(spike(chs, "player"), "opponent")
CheckSpikeCollision(chs, i) ==
    LET spike(c1, c) == IF InSpike(c1[c], i) /\ c1[c].isGrounded
                        THEN [TakeDamage(c1, c, spikeDamage * HpScale) EXCEPT ![c].vy = @ - 200]
                        ELSE c1
    IN spike(spike(chs, "player"), "opponent")

\* PhysicsEngine.checkRectangleCollision of the body of the rock r with the
\* body of the combatant b; the rock's y is in 1/QuantaPerSecond pixels
Touches(r, b) ==
    CheckRectangleCollision(
        [x |-> r.x * QuantaPerSecond, y |-> r.y,
         width |-> r.size * QuantaPerSecond, height |-> r.size * QuantaPerSecond],
        [x |-> b.x * QuantaPerSecond, y |-> b.y * QuantaPerSecond,
         width |-> charWidth * QuantaPerSecond, height |-> charHeight * QuantaPerSecond])

\* PhysicsEngine.checkCollisions() over the bodies of the two combatants, who
\* do not overlap each other, and of the falling rocks, in insertion order:
\* the pairs are taken from the array made at the start, so the body of a
\* rock that onTriggerEnter removed is still paired with the next combatant;
\* collidingWith of a rock is empty until its first contact, which removes it
CheckCollisions(s) ==
    LET hit(c1, c) == IF \E r \in s.arena.rocks : Touches(r, c1[c])
                      THEN TakeDamage(c1, c, rockDamage * HpScale)
                      ELSE c1
    IN [s EXCEPT !.ch = hit(hit(@, "player"), "opponent"),
                 !.arena.rocks = {r \in @ : \A c \in Combatants : ~Touches(r, s.ch[c])},
                 !.bodies = {b \in @ : \A r \in s.arena.rocks :
                                 b = RockBody(r, s.arena.owner) => \A c \in Combatants : ~Touches(r, s.ch[c])}]

AbilityKinds == {"light", "heavy", "special"}
AbilityOf(type, kind) ==
    CASE kind = "light" -> LightAbility(type)
      [] kind = "heavy" -> HeavyAbility(type)
      [] OTHER          -> SpecialAbility(type)

ApiInit ==
    /\ \E l \in ApiLineups, d \in ApiDefenses :
          ch = [c \in Combatants |->
                   IF c = "player" THEN NewCharacter(l[1], playerStartX, d)
                   ELSE NewCharacter(l[2], playerStartX + charWidth, d)]
    /\ isActive = FALSE
    /\ battleResult = "none"
    /\ aiUpdateTimer = 0
    /\ intervals = {}
    /\ isRunning = FALSE
    /\ isPlaying = FALSE
    /\ isPaused = FALSE
    /\ timeRemaining = maxBattleTime
    /\ winner = "none"
    /\ projectiles = {}
    /\ loops = 0
    /\ matchId = 0
    /\ reports = 0
    /\ endCause = "none"
    /\ elapsed = 0
    /\ calls = 0
    /\ bodies = {[id |-> c, at |-> 0, owner |-> 0] : c \in Combatants}
    /\ arena = NoArena
    /\ gameObjects = <<"player", "opponent">>
    /\ arenaAdded = FALSE
    /\ spawned = {}
    /\ thrown = "none"
    /\ request = NoRequest
    /\ tick = <<>>
    /\ world = NoWorld
    /\ progress = NewProgress
    /\ Constructed
    /\ last = [op |-> "init", who |-> "none", ret |-> TRUE, owner |-> 0]

\* one call of a method of the combatant c, or of a damage path onto c
ApiStep(op, c, r) ==
    /\ calls < ApiCalls
    /\ Become([Called(State, r) EXCEPT !.calls = @ + 1])
    /\ Ran(op, c, r.ret, 0)

ApiTakeDamage(c, amount) == ApiStep("takeDamage", c, Done(TakeDamage(ch, c, amount)))
ApiHeal(c, amount) == ApiStep("heal", c, Done(Heal(ch, c, amount)))
ApiDealDamage(c, kind) ==
    ApiStep("dealDamage", c, Done(DealDamage(ch, c, Other(c), AbilityOf(ch[c].type, kind))))
ApiAttack(c, kind) ==
    ApiStep(IF kind = "light" THEN "lightAttack"
            ELSE IF kind = "heavy" THEN "heavyAttack" ELSE "specialAttack",
            c, AttackOf(ch, c, kind))
ApiStartBlock(c) == ApiStep("startBlock", c, StartBlock(ch, c))
ApiStopBlock(c) == ApiStep("stopBlock", c, Done(StopBlock(ch, c)))
ApiDash(c, dirX) == ApiStep("dash", c, Dash(ch, c, dirX))
ApiMove(c, deltaX) == ApiStep("move", c, Done(Move(ch, c, deltaX)))
ApiHazard(c, kind) == ApiStep(kind, c, Done(TakeDamage(ch, c, HazardDamage(kind))))

\* Character.update(deltaTime) over one frame or a run of frames
ApiUpdate(c, dt) ==
    /\ calls < ApiCalls
    /\ Become([CharacterUpdate(State, c, dt) EXCEPT !.calls = @ + 1])
    /\ Ran("update", c, TRUE, 0)

NextApi ==
    \/ \E c \in Combatants, amount \in Amounts : ApiTakeDamage(c, amount)
    \/ \E c \in Combatants, amount \in Amounts : ApiHeal(c, amount)
    \/ \E c \in Combatants, kind \in AbilityKinds : ApiDealDamage(c, kind)
    \/ \E c \in Combatants, kind \in AttackTypes : ApiAttack(c, kind)
    \/ \E c \in Combatants : ApiStartBlock(c)
    \/ \E c \in Combatants : ApiStopBlock(c)
    \/ \E c \in Combatants : ApiDash(c, 1)
    \/ \E c \in Combatants : ApiMove(c, 0 - 100)
    \/ \E c \in Combatants, kind \in HazardKinds : ApiHazard(c, kind)
    \/ \E c \in Combatants : ApiUpdate(c, FrameRun)

SpecApi == ApiInit /\ [][NextApi]_vars

(***************************************************************************)
(* Ticks of any length: the two combatants built side by side, their calls  *)
(* that start a timer, and Character.update of both with the dt of a tick   *)
(***************************************************************************)
TickCalls == 5

TickCall(c, op) ==
    /\ calls < TickCalls
    /\ LET r == CASE op = "lightAttack" -> LightAttack(ch, c)
                  [] op = "specialAttack" -> SpecialAttack(ch, c)
                  [] op = "startBlock" -> StartBlock(ch, c)
                  [] OTHER -> Dash(ch, c, 1)
       IN Become([Called(State, r) EXCEPT !.calls = @ + 1]) /\ Ran(op, c, r.ret, 0)

TickUpdate(dt) ==
    /\ calls < TickCalls
    /\ Become([CharacterUpdate(CharacterUpdate(State, "player", dt), "opponent", dt)
               EXCEPT !.calls = @ + 1, !.elapsed = @ + dt])
    /\ Ran("update", "none", TRUE, 0)

NextTick ==
    \/ \E c \in Combatants, op \in {"lightAttack", "specialAttack", "startBlock", "dash"} : TickCall(c, op)
    \/ \E dt \in {10, 20, 40} : TickUpdate(dt)

SpecTick == ApiInit /\ [][NextTick]_vars

(***************************************************************************)
(* An arena on its own: any type, built from the table of the arena system  *)
(* or from its own defaults, and updated with ticks of any length           *)
(***************************************************************************)
MaxHazardTime == 360

\* firsts: the first cooldowns of the spikes generateSpikePositions kept
ArenaSpecInit ==
    /\ NoBattle
    /\ \E type \in ArenaTypes, build \in Builds, firsts \in {<<>>, <<0, 5 * QuantaPerSecond>>} :
          LET made == ArenaInit(type, build, 0, firsts)
          IN /\ arena = made.a
             /\ bodies = CreatePlatforms({}, made.a)
             /\ thrown = IF made.thrown THEN "init" ELSE "none"
    /\ gameObjects = <<>>
    /\ arenaAdded = FALSE
    /\ spawned = {}
    /\ request = NoRequest
    /\ tick = <<>>
    /\ world = NoWorld
    /\ progress = NewProgress
    /\ Constructed

\* Arena.update(deltaTime), with the bodies spawnFallingRock makes and
\* removeHazard removes; a rock is spawned only into an arena without one
ArenaTick(dt) ==
    /\ arena.hazardSpawnTimer < MaxHazardTime
    /\ \E r \in ArenaDraws :
          /\ r.spawn => arena.rocks = {}
          /\ LET u == ArenaUpdate(arena, dt, r)
             IN /\ Become([State EXCEPT
                              !.arena = u.a,
                              !.bodies = CreatePlatforms({}, u.a)
                                            \cup {RockBody(rock, 0) : rock \in u.a.rocks},
                              !.thrown = IF u.thrown THEN "arenaUpdate" ELSE @])
                /\ Ran("arenaUpdate", "none", ~u.thrown, 0)

NextArena == \E dt \in {30, 60} : ArenaTick(dt)

SpecArena == ArenaSpecInit /\ [][NextArena]_vars

(***************************************************************************)
(* A physics engine on its own: two bodies put side by side, on top of one *)
(* another or apart, then stepped and pushed                                *)
(***************************************************************************)
PhysCalls == 5

\* the first body is at (100, 558), on the floor; place is where the second is put
PhysInit ==
    /\ NoBattle
    /\ Unloaded
    /\ progress = NewProgress
    /\ Constructed
    /\ \E place \in {<<110, 558>>, <<90, 558>>, <<100, 540>>, <<200, 558>>}, massA \in {1, 3}, massB \in {1, 3},
          staticA \in BOOLEAN, staticB \in BOOLEAN, triggerB \in BOOLEAN :
          LET made == << CreateBody("a", 100, 558, massA, staticA, FALSE),
                         CreateBody("b", place[1], place[2], massB, staticB, triggerB) >>
          IN world = [bodies |-> made, was |-> Positions(made), mid |-> Positions(made),
                      contact |-> NoContact, enters |-> 0]

PhysStep(dt) ==
    /\ calls < PhysCalls
    /\ Become([State EXCEPT !.world = PhysicsUpdate(world, dt), !.calls = @ + 1])
    /\ Ran("update", "none", TRUE, 0)

PhysForce(i, force) ==
    /\ calls < PhysCalls
    /\ Become([State EXCEPT !.world = ApplyForce(world, i, force), !.calls = @ + 1])
    /\ Ran("applyForce", "none", TRUE, 0)

PhysImpulse(i, impulse) ==
    /\ calls < PhysCalls
    /\ Become([State EXCEPT !.world = ApplyImpulse(world, i, impulse), !.calls = @ + 1])
    /\ Ran("applyImpulse", "none", TRUE, 0)

NextPhysics ==
    \/ \E dt \in {1} : PhysStep(dt)
    \/ \E i \in 1..2, force \in {<<300, 0>>} : PhysForce(i, force)
    \/ \E i \in 1..2, impulse \in {<<0 - 60, 0>>} : PhysImpulse(i, impulse)

SpecPhysics == PhysInit /\ [][NextPhysics]_vars

(***************************************************************************)
(* The progression system on its own: XP added in whole amounts            *)
(***************************************************************************)
MaxXP == 1500

XpAdd(amount) ==
    /\ progress.totalXP < MaxXP
    /\ Become([State EXCEPT !.progress = AddXP(progress, amount)])
    /\ Ran("addXP", "none", TRUE, 0)

NextXp == \E amount \in {0, 30, 100, 250, 900} : XpAdd(amount)

SpecXp == Init /\ [][NextXp]_vars

(***************************************************************************)
(* The hazards of an arena built from its own defaults, with the two        *)
(* combatants among the game objects: the methods of Arena.update one by    *)
(* one, the collision check of the physics engine, and the combatants'      *)
(* own calls between them                                                   *)
(***************************************************************************)
HazardCalls == 6

HazardInit ==
    /\ ApiInit
    /\ ch["player"].type = "knight" /\ ch["player"].defense = 0

\* one call on the arena or on the engine: the combatants and the arena after it
HazardStep(op, who, chs, a) ==
    /\ calls < HazardCalls
    /\ Become([State EXCEPT !.ch = chs, !.arena = a, !.calls = @ + 1,
                            !.bodies = {[id |-> c, at |-> 0, owner |-> 0] : c \in Combatants}
                                           \cup {RockBody(rock, 0) : rock \in a.rocks}])
    /\ Ran(op, who, TRUE, 0)

\* new Arena(id, { type }) and init(), before any other call
HazardLoad(type) ==
    /\ arena = NoArena
    /\ HazardStep("loadArena", "none", ch, ArenaInit(type, "default", 0, <<0, 5 * QuantaPerSecond>>).a)

\* Arena.spawnFallingRock(config) into an arena without a rock
HazardSpawn(draw) ==
    /\ arena.type # "none" /\ arena.rocks = {}
    /\ HazardStep("spawnFallingRock", "none", ch, SpawnHazards(arena, TRUE, draw).a)

\* Arena.updateHazards(deltaTime)
HazardFall(dt) ==
    /\ arena.rocks # {}
    /\ HazardStep("updateHazards", "none", ch, UpdateHazards(arena, dt))

\* PhysicsEngine.checkCollisions()
HazardContacts ==
    /\ arena.rocks # {}
    /\ LET s == CheckCollisions(State)
       IN HazardStep("checkCollisions", "none", s.ch, s.arena)

\* Arena.updateLavaFloor(deltaTime), which damages the lava's victims in its
\* active phase
HazardLava(dt) ==
    /\ arena.lava.on
    /\ HazardStep("updateLavaFloor", "none",
                  IF arena.lava.active /\ ~arena.lava.isWarning THEN DamageLavaVictims(ch, dt) ELSE ch,
                  [arena EXCEPT !.lava = UpdateLavaFloor(@, HazardConfig(arena.type, arena.build), dt)])

\* Arena.updateSpikes(deltaTime), which checks each spike it activates
\* against the combatants, in the order of the spikes
HazardSpikes(dt, long) ==
    /\ arena.spikes # <<>>
    /\ LET after == [i \in DOMAIN arena.spikes |->
                        UpdateSpike(arena.spikes[i], HazardConfig(arena.type, arena.build), dt, long)]
           out(i) == ~arena.spikes[i].active /\ after[i].active
           c1 == IF out(1) THEN CheckSpikeCollision(ch, 1) ELSE ch
           c2 == IF out(2) THEN CheckSpikeCollision(c1, 2) ELSE c1
       IN HazardStep("updateSpikes", "none", c2, [arena EXCEPT !.spikes = after])

\* Character.updatePosition() of c: x, y and isGrounded as its body has them
HazardPosition(c, x, y, grounded) ==
    HazardStep("updatePosition", c, [ch EXCEPT ![c].x = x, ![c].y = y, ![c].isGrounded = grounded], arena)

\* Character.startBlock() and Character.update(deltaTime) of c
HazardBlock(c) == HazardStep("startBlock", c, StartBlock(ch, c).chs, arena)
HazardUpdate(c, dt) ==
    /\ calls < HazardCalls
    /\ Become([CharacterUpdate(State, c, dt) EXCEPT !.calls = @ + 1])
    /\ Ran("update", c, TRUE, 0)

NextHazard ==
    \/ \E type \in {"volcanic", "spiky", "chaotic"} : HazardLoad(type)
    \/ \E draw \in {<<20, 100, 0>>, <<40, 200, 170>>} : HazardSpawn(draw)
    \/ \E dt \in {6, 60} : HazardFall(dt)
    \/ HazardContacts
    \/ \E dt \in {30, 5 * QuantaPerSecond} : HazardLava(dt)
    \/ \E dt \in {6, 5 * QuantaPerSecond}, long \in BOOLEAN : HazardSpikes(dt, long)
    \/ \E x \in {150, 180}, g \in BOOLEAN : HazardPosition("player", x, arenaHeight - margin - charHeight, g)
    \/ \E c \in Combatants : HazardBlock(c)
    \/ \E c \in Combatants : HazardUpdate(c, 6)

SpecHazard == HazardInit /\ [][NextHazard]_vars

(***************************************************************************)
(* The two combatants under the clock: frames that come w quanta apart,    *)
(* each after the timeouts that came due, with the deltaTime the game loop  *)
(* hands to update, and calls between the frames                            *)
(***************************************************************************)
ClockCalls == 2
MaxClock == 14

\* a call of lightAttack, dash or move; a successful attack or dash is where
\* sinceAttack and sinceDash count from
ClockCall(c, op) ==
    /\ calls < ClockCalls
    /\ LET r == CASE op = "lightAttack" -> LightAttack(ch, c)
                  [] op = "dash" -> Dash(ch, c, 1)
                  [] OTHER -> Done(Move(ch, c, 100))
           seen == [r.chs EXCEPT
                       ![c].sinceAttack = IF op = "lightAttack" /\ r.ret THEN 0 ELSE @,
                       ![c].sinceDash = IF op = "dash" /\ r.ret THEN 0 ELSE @]
       IN Become([Called(State, [r EXCEPT !.chs = seen]) EXCEPT !.calls = @ + 1])
          /\ Ran(op, c, r.ret, 0)

\* a frame w quanta after the last: the timeouts due, then gameLoop with
\* deltaTime = Math.min(deltaTime, 1/30) and Character.update of both
ClockFrame(w) ==
    /\ elapsed < MaxClock
    /\ LET dt == Min(w, 1)
           s0 == [State EXCEPT !.ch = TimersElapse(@, w)]
           s1 == CharacterUpdate(CharacterUpdate(s0, "player", dt), "opponent", dt)
       IN Become([s1 EXCEPT
                     !.ch = [c \in Combatants |->
                                [@[c] EXCEPT !.sinceAttack = Min(@ + w, attackDelay),
                                             !.sinceDash = Min(@ + dt, dashDuration)]],
                     !.elapsed = @ + dt])
    /\ Ran("update", "none", TRUE, 0)

NextClock ==
    \/ \E c \in Combatants, op \in {"lightAttack", "dash", "move"} : ClockCall(c, op)
    \/ \E w \in {1, 2} : ClockFrame(w)

SpecClock == ApiInit /\ [][NextClock]_vars

(***************************************************************************)
(* Matches started one after another from any stored choice of arena and    *)
(* of character, a type the tables do not have among them                   *)
(***************************************************************************)
MaxStarts == 2
StartChoices == {d \in AIChoices : d.blockReady /\ d.rule \in {"dash", "idle"}}

StartAttempt ==
    /\ matchId < MaxStarts
    /\ \E a \in ArenaTypes \cup {"unknown"}, p \in {"ninja", "unknown"} :
          LET s == StartBattleIn(State, a, p, "ninja")
          IN Become(s) /\ Ran("startBattle", "none", s.thrown = "none", 0)

StartRematch ==
    /\ spawned = Combatants
    /\ matchId < MaxStarts
    /\ LET s == StartBattleIn(State, arena.type, ch["player"].type, ch["opponent"].type)
       IN Become(s) /\ Ran("startBattle", "none", s.thrown = "none", 0)

StartAITick == \E m \in 1..MaxStarts : AITickOf(m, StartChoices, MaxCalls)
StartAttack == PlayerAttackOf("light", MaxCalls)

NextStart ==
    \/ StartAttempt
    \/ StartRematch
    \/ DoQuitBattle
    \/ Frame
    \/ StartAITick
    \/ StartAttack
    \/ AttackEnd("player")
    \/ DashEnd("opponent")

SpecStart == Init /\ [][NextStart]_vars

(***************************************************************************)
(* Properties                                                              *)
(***************************************************************************)
\* C1: for every started match the battleComplete report is delivered exactly
\* once, never twice, and never zero times once the match has ended, under any
\* interleaving of player death, opponent death, countdown expiry and quit
ReportedExactlyOnce ==
    /\ reports <= 1
    /\ (matchId > 0 /\ ~isActive) => reports = 1

\* both combatants died in the same frame and one report went out
BothDiedOneReport ==
    /\ ch["player"].isDead
    /\ ch["opponent"].isDead
    /\ endCause = "death"
    /\ reports = 1

\* C2: a match that ends because a combatant's health reached 0 is won by the
\* other combatant: the result is 'defeat' only if the player's health is 0
\* and the opponent's is above 0, 'victory' only if the opponent's health is 0
\* and the player's is above 0, also when both were hit before the same tick
DeathNamesTheSurvivor ==
    endCause = "death" =>
        /\ battleResult = "defeat" =>
              (ch["player"].health = 0 /\ ch["opponent"].health > 0)
        /\ battleResult = "victory" =>
              (ch["opponent"].health = 0 /\ ch["player"].health > 0)

\* C3: a match in which neither health reaches 0 ends by the countdown only
\* once the whole budget of battleDuration seconds has run, with victory for
\* the combatant of strictly greater health and a draw when they are equal
TimeoutGoesByHealth ==
    (endCause = "timeout" /\ ch["player"].health > 0 /\ ch["opponent"].health > 0) =>
        /\ timeRemaining = 0
        /\ elapsed >= maxBattleTime
        /\ battleResult = IF ch["player"].health > ch["opponent"].health THEN "victory"
                          ELSE IF ch["opponent"].health > ch["player"].health THEN "defeat"
                          ELSE "draw"

\* the countdown ran out with the opponent hurt and the player ahead
TimeoutVictory ==
    /\ endCause = "timeout"
    /\ battleResult = "victory"
    /\ ch["opponent"].health > 0
    /\ ch["player"].health > ch["opponent"].health

\* C4: every started match ends: while frames are delivered and the game is
\* not paused, no match is still running once battleDuration seconds of
\* simulated time have gone by since its start, also for a match started by
\* startBattle or rematch while an earlier one was running
EndsWithinBudget == isActive => elapsed < maxBattleTime

\* position, health, cooldowns and state flags of a combatant
Core(c) ==
    <<c.x, c.health, c.attackCooldown, c.blockCooldown, c.dashCooldown, c.facingRight,
      c.isAttacking, c.isBlocking, c.isDashing, c.isStunned, c.isDead>>

\* C6: once a combatant's health has reached 0, no takeDamage, move or
\* ability call changes its position, health, cooldowns or state flags
DeathIsTerminal ==
    [][\A c \in Combatants :
          (ch[c].health = 0 /\ matchId' = matchId /\ calls' = calls + 1)
              => Core(ch'[c]) = Core(ch[c])]_vars

\* C7: a cooldown timer of a combatant rises only in a step in which the
\* matching action succeeded (an attack went out, a block was ended, a dash
\* began); in every other step, a stopBlock while not blocking included, it
\* stays or falls
CooldownsRiseOnSuccess ==
    [][matchId' = matchId =>
          \A c \in Combatants :
              /\ ch'[c].attackCooldown > ch[c].attackCooldown =>
                    (ch'[c].isAttacking \/ projectiles' # projectiles)
              /\ ch'[c].blockCooldown > ch[c].blockCooldown => ch[c].isBlocking
              /\ ch'[c].dashCooldown > ch[c].dashCooldown => ch'[c].isDashing]_vars

HealthInBounds ==
    \A c \in Combatants : 0 <= ch[c].health /\ ch[c].health <= maxHealth * HpScale

\* the combatant a damage application lands on: the other one for dealDamage
\* called on the attacker, the victim itself for a hazard path
TargetOf(op, who) == IF op = "dealDamage" THEN Other(who) ELSE who

\* the damage applications of kinds ops that land on a combatant neither
\* invulnerable nor dead remove one hit point, or all that is left
FloorHolds(ops) ==
    \A c \in Combatants :
        (/\ calls' = calls + 1
         /\ last'.op \in ops
         /\ TargetOf(last'.op, last'.who) = c
         /\ ch[c].invulnerabilityTime = 0
         /\ ~ch[c].isDead)
            => ch'[c].health <= Max(0, ch[c].health - HpScale)

\* C8 as stated: every damage application landing on a combatant neither
\* invulnerable nor dead, a melee hit, a projectile hit or hazard damage handed
\* to takeDamage, removes at least 1 health or all that remains
EveryDamageFloored == [][FloorHolds({"dealDamage"} \cup HazardKinds)]_vars

\* C8: every melee hit of dealDamage, projectile hit, falling rock, spike and
\* hazard collision landing on a combatant neither invulnerable nor dead
\* removes at least 1 health or all that remains, whatever the defense and the
\* block reduction; the lava floor, which hands takeDamage its damage per
\* second times the frame's deltaTime, is not among them
HitDamageFloored == [][FloorHolds(({"dealDamage"} \cup HazardKinds) \ {"lava"})]_vars

\* a first hit whose damage the defense of the target would have cancelled
\* took exactly one hit point
FlooredHit ==
    \E c \in Combatants :
        /\ last.op = "dealDamage"
        /\ last.who = Other(c)
        /\ calls = 1
        /\ ch[c].defense * HpScale > HeavyAbility(ch[Other(c)].type).damage
        /\ ch[c].health = maxHealth * HpScale - HpScale

\* the calls that can be refused, and the condition under which the code of
\* each promises to refuse
Refusable == {"lightAttack", "heavyAttack", "specialAttack", "startBlock", "dash"}
PreconditionFails(c, op) ==
    \/ c.isStunned
    \/ c.isDead
    \/ CASE op = "startBlock" -> c.blockCooldown > 0
         [] op = "dash" -> c.dashCooldown > 0
         [] op = "specialAttack" /\ c.type = "berserker" -> c.rageCooldown > 0
         [] OTHER -> c.attackCooldown > 0

\* C9: an attack, startBlock or dash requested while its precondition fails
\* (its cooldown is running, or the combatant is stunned or dead) returns
\* false and changes no health, cooldown, velocity or flag of either combatant
RefusedChangesNothing ==
    [][(/\ calls' = calls + 1
        /\ last'.op \in Refusable
        /\ PreconditionFails(ch[last'.who], last'.op))
           => (last'.ret = FALSE /\ ch' = ch /\ projectiles' = projectiles)]_vars

\* a light attack was refused for its cooldown alone
RefusedOnCooldown ==
    /\ last.op = "lightAttack"
    /\ last.ret = FALSE
    /\ ch[last.who].attackCooldown > 0
    /\ ~ch[last.who].isStunned
    /\ ~ch[last.who].isDead

\* C11: a match that has just started holds nothing of the match before it:
\* the physics world has the bodies of its two combatants and of its arena's
\* platforms and no other, the arena is its own with no hazard and every
\* hazard phase as init() made it, the one AI timer installed is its own, no
\* combat timer is pending, and both combatants are at full health with
\* every cooldown at 0
FreshMatch ==
    /\ last.op = "startBattle"
    /\ thrown = "none"
    /\ isActive
    /\ elapsed = 0
    /\ calls = 0

FreshMatchIsClean ==
    FreshMatch =>
        /\ bodies = {[id |-> c, at |-> 0, owner |-> matchId] : c \in Combatants}
                        \cup {[id |-> p, at |-> 0, owner |-> matchId] : p \in PlatformIds(arena.type)}
        /\ arena = [NoArena EXCEPT !.type = request.arena, !.owner = matchId,
                                   !.lava.on = HazardConfig(request.arena, "system").lava,
                                   !.wind.on = HazardConfig(request.arena, "system").wind]
        /\ intervals = {matchId}
        /\ aiUpdateTimer = matchId
        /\ \A c \in Combatants :
              /\ ~ch[c].attackEnd /\ ~ch[c].dashEnd /\ ~ch[c].rageEnd
              /\ ch[c].health = maxHealth * HpScale
              /\ ch[c].attackCooldown = 0 /\ ch[c].blockCooldown = 0
              /\ ch[c].dashCooldown = 0 /\ ch[c].rageCooldown = 0
              /\ ch[c].stunDuration = 0 /\ ch[c].invulnerabilityTime = 0

\* C12: a start that asks for an arena type or a character type the tables
\* do not have does not fail: the match is started, with the arena 'basic'
\* for the unknown arena type and the archetype 'ninja' for the unknown
\* character type
UnknownTypeStillStarts ==
    (matchId > 0 /\ (~ArenaKnown(request.arena) \/ ~CharacterKnown(request.player))) =>
        /\ thrown # "startBattle"
        /\ arena.owner = matchId
        /\ ~ArenaKnown(request.arena) => arena.type = "basic"
        /\ spawned = Combatants
        /\ ~CharacterKnown(request.player) => ch["player"].type = "ninja"

\* the damage of a melee hit as the rule gives it, in 1/HpScale hit points:
\* max(1, base * multiplier * (1 - block reduction if blocking) - defense)
RuleDamage(attacker, target, ability) ==
    LET multiplier == IF attacker.type = "berserker" /\ attacker.rageActive
                      THEN rageDamageTenths ELSE 10
        kept == IF target.isBlocking
                THEN 10 - (IF target.type = "knight" THEN 7 ELSE blockReduction)
                ELSE 10
    IN Max(HpScale, (ability.damage * multiplier * kept) \div 100 - target.defense * HpScale)

\* the two scenarios: a light attack of 15 damage on a combatant of 100
\* health and no defense, not blocking and blocking at 50%
ScenarioHit(blocking) ==
    LET chs == [c \in Combatants |->
                   IF c = "player" THEN NewCharacter("default", playerStartX, 0)
                   ELSE [NewCharacter("default", playerStartX + charWidth, 0)
                         EXCEPT !.isBlocking = blocking]]
    IN DealDamage(chs, "player", "opponent", LightAbility("default"))["opponent"].health

\* C13: a light or heavy attack that lands on a target neither invulnerable
\* nor dead leaves it the health it had less max(1, base * multiplier *
\* (1 - block reduction if blocking) - defense), and no less than 0; the
\* light attack of 15 leaves 85 of 100 unblocked, and 92 or more blocked
\* (two facts about no state, looked at with the first call)
MeleeHitRemovesRuleDamage ==
    [][/\ last.op = "init" => /\ ScenarioHit(FALSE) = 85 * HpScale
                              /\ ScenarioHit(TRUE) >= 92 * HpScale
       /\ \A a \in Combatants :
             LET t == Other(a)
                 ability == IF last'.op = "lightAttack" THEN LightAbility(ch[a].type)
                            ELSE HeavyAbility(ch[a].type)
             IN (/\ calls' = calls + 1
                 /\ last'.op \in {"lightAttack", "heavyAttack"}
                 /\ last'.who = a
                 /\ last'.ret
                 /\ InHitbox(ch[a], ch[t], ability)
                 /\ ch[t].invulnerabilityTime = 0
                 /\ ~ch[t].isDead)
                    => ch'[t].health = Max(0, ch[t].health - RuleDamage(ch[a], ch[t], ability))]_vars

\* a knight's light attack of 20 landed on a blocking ninja without defense
\* and took 10
BlockedHitHalved ==
    /\ last.op = "lightAttack"
    /\ last.who = "player"
    /\ last.ret
    /\ ch["player"].type = "knight"
    /\ ch["opponent"].isBlocking
    /\ ch["opponent"].defense = 0
    /\ ch["opponent"].health = (maxHealth - 10) * HpScale

\* C14: a hit that lands on a blocking target, neither invulnerable nor
\* dead, by a light, heavy or special attack or by a projectile, removes the
\* damage times (1 - block reduction) and leaves the target's velocity and
\* its stun as they were
BlockSuppresses ==
    [][\A t \in Combatants :
          LET a == Other(t)
              ability == AbilityOf(ch[a].type,
                                   CASE last'.op = "lightAttack" -> "light"
                                     [] last'.op = "heavyAttack" -> "heavy"
                                     [] OTHER -> "special")
              landed == /\ calls' = calls + 1
                        /\ ch[t].isBlocking
                        /\ ch[t].invulnerabilityTime = 0
                        /\ ~ch[t].isDead
                        /\ ch'[t].health < ch[t].health
          IN /\ (landed /\ last'.op \in {"lightAttack", "heavyAttack", "specialAttack"}
                        /\ last'.who = a)
                   => /\ ch'[t].health = Max(0, ch[t].health - RuleDamage(ch[a], ch[t], ability))
                      /\ ch'[t].vx = ch[t].vx
                      /\ ch'[t].isStunned = ch[t].isStunned
                      /\ ch'[t].stunDuration = ch[t].stunDuration
             /\ (landed /\ last'.op = "projectile" /\ last'.who = t)
                   => ch'[t].health =
                         Max(0, ch[t].health - RuleDamage(ch[a], ch[t], SpecialAbility("mage")))]_vars

TimersNeverNegative ==
    \A c \in Combatants :
        last.op = "update" =>
            /\ ch[c].attackCooldown >= 0
            /\ ch[c].blockCooldown >= 0
            /\ ch[c].dashCooldown >= 0
            /\ ch[c].rageCooldown >= 0
            /\ ch[c].rageDuration >= 0
            /\ ch[c].stunDuration >= 0
            /\ ch[c].invulnerabilityTime >= 0
            /\ ch[c].health >= 0

\* C17: every cyclic hazard of an arena is in one phase at a time: the lava
\* floor is never warning and active at once, and a wind gust or a spike is
\* never active while its cooldown timer is running
OnePhaseAtATime ==
    /\ arena.lava.on => ~(arena.lava.isWarning /\ arena.lava.active)
    /\ arena.wind.on => ~(arena.wind.active /\ arena.wind.cooldownTimer > 0)
    /\ \A i \in DOMAIN arena.spikes :
          ~(arena.spikes[i].active /\ arena.spikes[i].cooldownTimer > 0)

\* the lava floor of an arena became active after its warning while a wind
\* gust blew and a spike was out
AllHazardsActive ==
    /\ arena.lava.active
    /\ ~arena.lava.isWarning
    /\ arena.wind.active
    /\ \E i \in DOMAIN arena.spikes : arena.spikes[i].active

\* C18 as stated: whenever an overlapping pair of solid bodies is resolved,
\* the first body is moved by overlap * m2 / (m1 + m2) against the collision
\* normal and the second by overlap * m1 / (m1 + m2) along it, and a static
\* body is where it was before the operation
SeparatedByMassRatio ==
    LET a == world.bodies[1]
        b == world.bodies[2]
        c == world.contact
        totalMass == a.mass + b.mass
    IN /\ c.resolved =>
             /\ (world.mid[1].x - a.x) * totalMass = c.overlap * b.mass * c.normalX
             /\ (world.mid[1].y - a.y) * totalMass = c.overlap * b.mass * c.normalY
             /\ (b.x - world.mid[2].x) * totalMass = c.overlap * a.mass * c.normalX
             /\ (b.y - world.mid[2].y) * totalMass = c.overlap * a.mass * c.normalY
       /\ \A i \in DOMAIN world.bodies :
             world.bodies[i].isStatic =>
                 world.bodies[i].x = world.was[i].x /\ world.bodies[i].y = world.was[i].y

\* C18, amended: two solid bodies that can both move are separated by
\* overlap * m2 / (m1 + m2) and overlap * m1 / (m1 + m2) in opposite
\* directions along the collision normal; next to a static body the other
\* body is moved by the whole overlap; and no update, force or impulse
\* changes the position of a static body
SeparatedByMassUnlessStatic ==
    LET a == world.bodies[1]
        b == world.bodies[2]
        c == world.contact
        totalMass == a.mass + b.mass
        shareA == IF a.isStatic THEN 0 ELSE IF b.isStatic THEN totalMass ELSE b.mass
        shareB == IF b.isStatic THEN 0 ELSE IF a.isStatic THEN totalMass ELSE a.mass
    IN /\ c.resolved =>
             /\ (world.mid[1].x - a.x) * totalMass = c.overlap * shareA * c.normalX
             /\ (world.mid[1].y - a.y) * totalMass = c.overlap * shareA * c.normalY
             /\ (b.x - world.mid[2].x) * totalMass = c.overlap * shareB * c.normalX
             /\ (b.y - world.mid[2].y) * totalMass = c.overlap * shareB * c.normalY
       /\ \A i \in DOMAIN world.bodies :
             world.bodies[i].isStatic =>
                 world.bodies[i].x = world.was[i].x /\ world.bodies[i].y = world.was[i].y

\* an update resolved an overlapping pair of movable bodies of unequal mass
UnequalMassesSeparated ==
    /\ world.contact.resolved
    /\ world.contact.overlap > 0
    /\ ~world.bodies[1].isStatic
    /\ ~world.bodies[2].isStatic
    /\ world.bodies[1].mass # world.bodies[2].mass

\* C19: after any sequence of addXP calls with amounts that are not negative
\* the stored level is floor(sqrt(totalXP / 100)) + 1, that is
\* (level - 1)^2 * 100 <= totalXP < level^2 * 100, and it never decreases
LevelFollowsTotalXP ==
    /\ [](/\ progress.level >= 1
          /\ (progress.level - 1) * (progress.level - 1) * 100 <= progress.totalXP
          /\ progress.totalXP < progress.level * progress.level * 100)
    /\ [][progress'.level >= progress.level]_vars

\* one addXP took the player past level 2
LevelsSkipped == last.op = "addXP" /\ progress.level >= 3 /\ progress.coins < 50

\* C20: in a running match every tick runs, once each and in this order, the
\* update of the arena's hazards, the timer updates of both combatants, the
\* physics step, and then the countdown with its victory check
TickRunsAllInOrder ==
    (isActive /\ isPlaying /\ tick # <<>>) =>
        SelectSeq(tick, LAMBDA o : o # "projectile") = <<"arena", "player", "opponent", "physics", "countdown">>

\* C21: at any time at most one AI decision timer is installed, and one is
\* installed only while a match is active
OneLiveAITimer ==
    /\ Cardinality(intervals) <= 1
    /\ intervals # {} => isActive

\* C22: while the game is paused neither combatant's health, position,
\* cooldowns or state flags change: no AI decision, attack or timer callback
\* takes effect before the game is resumed
PausedIsFrozen ==
    [][(isActive /\ isPaused /\ isPaused' /\ matchId' = matchId) =>
          \A c \in Combatants :
             /\ ch'[c].health = ch[c].health
             /\ ch'[c].x = ch[c].x
             /\ ch'[c].attackCooldown = ch[c].attackCooldown
             /\ ch'[c].blockCooldown = ch[c].blockCooldown
             /\ ch'[c].dashCooldown = ch[c].dashCooldown
             /\ ch'[c].isAttacking = ch[c].isAttacking
             /\ ch'[c].isBlocking = ch[c].isBlocking
             /\ ch'[c].isDashing = ch[c].isDashing
             /\ ch'[c].isStunned = ch[c].isStunned
             /\ ch'[c].isDead = ch[c].isDead]_vars

AttackWindowIsWhole ==
    \A c \in Combatants :
        ~ch[c].isDead => (ch[c].isAttacking <=> ch[c].sinceAttack < attackDelay)

\* C25: a successful dash keeps the combatant dashing for exactly the dash
\* duration of tick time: it is dashing while the deltaTime of the ticks since
\* the dash sums to less than the duration and no longer once it does, and
\* move() changes nothing while it is dashing
DashLastsItsDuration ==
    /\ [](\A c \in Combatants :
             ~ch[c].isDead => (ch[c].isDashing <=> ch[c].sinceDash < dashDuration))
    /\ [][\A c \in Combatants :
             (last'.op = "move" /\ last'.who = c /\ ch[c].isDashing) => ch'[c] = ch[c]]_vars

\* C26: in every arena whose catalog entry enables the lava floor, the lava
\* floor is never idle with its timer at or over the cooldown threshold, a
\* tick moves it only from idle to warning, from warning to active and from
\* active to idle, and it is active for no longer than the active duration
LavaFloorCycles ==
    /\ [](LET l == arena.lava
              h == HazardConfig(arena.type, arena.build)
          IN l.on =>
                /\ (~l.active /\ ~l.isWarning) => l.timer < h.lavaCooldown
                /\ (l.active /\ ~l.isWarning) => l.timer < h.lavaActive)
    /\ [][LET phase(l) == IF l.isWarning THEN "warning" ELSE IF l.active THEN "active" ELSE "idle"
          IN (arena.lava.on /\ phase(arena.lava') # phase(arena.lava)) =>
                <<phase(arena.lava), phase(arena.lava')>>
                    \in {<<"idle", "warning">>, <<"warning", "active">>, <<"active", "idle">>}]_vars

\* C27: a collision check removes every falling rock whose body touches a
\* combatant's, and the rocks it removes have damaged at most one combatant
\* each: no more combatants lose health in the check than rocks are removed
RockHitsOnce ==
    [][last'.op = "checkCollisions" =>
          /\ \A r \in arena.rocks : (\E c \in Combatants : Touches(r, ch[c])) => r \notin arena'.rocks
          /\ Cardinality({c \in Combatants : ch'[c].health < ch[c].health})
                <= Cardinality(arena.rocks \ arena'.rocks)]_vars

\* C28: an update of the spikes changes a combatant's health or vertical
\* velocity only if a spike went from inactive to active in that update while
\* the combatant was grounded and within it, and then by one damage and one
\* launch; a combatant whose position changes is not affected by the spikes
\* that are out
SpikeStrikesOnActivation ==
    [][\A c \in Combatants :
          /\ (last'.op = "updateSpikes" /\ (ch'[c].health # ch[c].health \/ ch'[c].vy # ch[c].vy)) =>
                /\ \E i \in DOMAIN arena.spikes :
                      /\ ~arena.spikes[i].active /\ arena'.spikes[i].active
                      /\ ch[c].isGrounded
                      /\ CheckRectangleCollision(
                             [x |-> ch[c].x, y |-> ch[c].y, width |-> charWidth, height |-> charHeight],
                             [x |-> 100 * i - 20, y |-> arenaHeight - 60, width |-> 40, height |-> 20])
                /\ ch'[c].vy = ch[c].vy - 200
                /\ ch'[c].health \in {ch[c].health, Max(0, ch[c].health - spikeDamage * HpScale)}
          /\ (last'.op = "updatePosition" /\ last'.who = c) =>
                (ch'[c].health = ch[c].health /\ ch'[c].vy = ch[c].vy)]_vars

\* a spike came out under the grounded player, who lost the spike's damage
\* and was launched
PlayerSpiked ==
    /\ last.op = "updateSpikes"
    /\ \E i \in DOMAIN arena.spikes : arena.spikes[i].active /\ InSpike(ch["player"], i)
    /\ ch["player"].isGrounded
    /\ ch["player"].health = (maxHealth - spikeDamage) * HpScale
    /\ ch["player"].vy = 0 - 200

\* C29: in an update of the engine with a trigger body, onTriggerEnter is
\* called only if the pair overlaps after the integration, once if it did
\* not overlap before the update, and not at all if it overlapped at the end
\* of the update before; the pair is left where the integration put it and
\* no collision data is resolved for it
TriggerEntersOncePerOverlap ==
    [][(last'.op = "update" /\ world.bodies # <<>> /\ world.bodies[2].isTrigger) =>
          LET before == CheckRectangleCollision(world.bodies[1], world.bodies[2])
              after == CheckRectangleCollision(world'.bodies[1], world'.bodies[2])
          IN /\ world'.enters <= 1
             /\ world'.enters = 1 => after
             /\ (~before /\ after) => world'.enters = 1
             /\ (last.op = "update" /\ before /\ after) => world'.enters = 0
             /\ Positions(world'.bodies) = world'.mid
             /\ ~world'.contact.resolved]_vars

\* C30: when a collision check with a falling rock, an update of the lava
\* floor or an update of the spikes changes a combatant's health, the
\* combatant was not invulnerable and loses the hazard's whole damage,
\* blocking or not
HazardsBypassBlocking ==
    [][\A c \in Combatants :
          (last'.op \in {"checkCollisions", "updateLavaFloor", "updateSpikes"}
              /\ ch'[c].health # ch[c].health) =>
                /\ ch[c].invulnerabilityTime = 0
                /\ LET whole == CASE last'.op = "checkCollisions" -> {rockDamage * HpScale}
                                  [] last'.op = "updateSpikes" -> {spikeDamage * HpScale}
                                  [] OTHER -> {LavaFrameDamage * dt : dt \in {30, 5 * QuantaPerSecond}}
                   IN \E amount \in whole : ch'[c].health = Max(0, ch[c].health - amount)]_vars

\* the player was struck by a spike while blocking and lost the spike's
\* whole damage
BlockingPlayerSpiked ==
    /\ last.op = "updateSpikes"
    /\ ch["player"].isBlocking
    /\ ch["player"].health = (maxHealth - spikeDamage) * HpScale
    /\ ch["player"].invulnerabilityTime = invulnerabilityWindow

(***************************************************************************)
(* The opponent AI with its four decision timers: one match of a ninja      *)
(* against a knight, the interval callbacks of the AI, the player's         *)
(* attacks, and runs of frames between them                                 *)
(***************************************************************************)
\* the callbacks after which a timer that adds 0.1 each time passes its
\* threshold: 0.5 is not above 0.5 and 0.6 is; eight additions of 0.1 make
\* 0.7999999999999999 and nine 0.8999999999999999; 0.2 is not above 0.2;
\* twenty additions make 2.0000000000000004
blockAfter == 5
attackAfter == 8
moveAfter == 2
dashAfter == 19

\* past every threshold a timer tells nothing more
TimerCap == dashAfter + 1

\* the draws of Math.random() in one decision: the block roll below 0.7, the
\* dash roll below 0.3, the attack roll below attackChance, the attack it
\* picks, the change of the strafing direction and the jitter of the move
AIDraws ==
    [block : BOOLEAN, dash : BOOLEAN, attack : BOOLEAN, type : AttackTypes,
     turn : BOOLEAN, jitter : {0 - 10, 10}]

\* what a rule of makeAIDecision leaves in aiState when it fires: its own
\* timer at 0 and, but for the move rule, its name in lastAction
RuleFiredMut(ai, rule, made, ret) ==
    [ai EXCEPT !.blockTimer = IF rule = "block" THEN 0 ELSE @,
               !.dashTimer = IF rule = "dash" THEN 0 ELSE @,
               !.attackTimer = IF rule \in {"attack", "move"} THEN 0 ELSE @,
               !.moveTimer = IF rule = "move" THEN 0 ELSE @,
               !.lastAction = IF rule = "move" THEN @ ELSE rule,
               !.fired = rule, !.issued = made, !.took = ret]
RuleFired(ai, rule, made, ret) ==
    [ai EXCEPT !.blockTimer = IF rule = "block" THEN 0 ELSE @,
               !.dashTimer = IF rule = "dash" THEN 0 ELSE @,
               !.attackTimer = IF rule = "attack" THEN 0 ELSE @,
               !.moveTimer = IF rule = "move" THEN 0 ELSE @,
               !.lastAction = IF rule = "move" THEN @ ELSE rule,
               !.fired = rule, !.issued = made, !.took = ret]

\* BattleSystem.makeAIDecision(distance, isPlayerLeft) on the timers of
\* aiState; the values the opponent's methods return are dropped by the code
\* and kept here in took
AIDecision(s, r) ==
    LET ai == s.aiState
        player == s.ch["player"]
        distance == Abs(player.x - s.ch["opponent"].x)
        isPlayerLeft == player.x < s.ch["opponent"].x
        threatened == player.isAttacking /\ distance < 80 /\ ai.blockTimer > blockAfter
        c0 == IF threatened THEN s.ch ELSE StopBlock(s.ch, "opponent")
        i0 == IF threatened THEN {} ELSE {"stopBlock"}
        toward == IF isPlayerLeft THEN 0 - 1 ELSE 1
        dashDirection == IF distance > 150 THEN toward ELSE 0 - toward
        blocked == StartBlock(s.ch, "opponent")
        dashed == Dash(c0, "opponent", dashDirection)
        attacked == AttackOf(c0, "opponent", r.type)
        moveDirection == IF distance > 100 \/ distance < 50 THEN ai.moveDirection
                         ELSE IF r.turn THEN 0 - ai.moveDirection ELSE ai.moveDirection
        moveX == (IF distance > 100 THEN toward * 70
                  ELSE IF distance < 50 THEN (0 - toward) * 50
                  ELSE moveDirection * 30) + r.jitter
    IN IF threatened /\ r.block
       THEN [Called(s, blocked) EXCEPT
                !.aiState = RuleFired(ai, "block", {"startBlock"}, blocked.ret)]
       ELSE IF ai.dashTimer > dashAfter /\ r.dash
       THEN [Called(s, dashed) EXCEPT
                !.aiState = RuleFired(ai, "dash", i0 \cup {"dash"}, dashed.ret)]
       ELSE IF distance < 50 + 20 /\ ai.attackTimer > attackAfter /\ r.attack
       THEN [Called(s, attacked) EXCEPT
                !.aiState = RuleFired(ai, "attack", i0 \cup {r.type}, attacked.ret)]
       ELSE IF ai.moveTimer > moveAfter
       THEN [s EXCEPT !.ch = Move(c0, "opponent", moveX),
                      !.aiState = RuleFired([ai EXCEPT !.moveDirection = moveDirection],
                                            "move", i0 \cup {"move"}, TRUE)]
       ELSE [s EXCEPT !.ch = c0,
                      !.aiState = [ai EXCEPT !.fired = "none", !.issued = i0, !.took = TRUE]]

\* BattleSystem.updateOpponentAI(): the guard, deltaTime of 0.1 added to the
\* four timers, and the decision
OpponentAI(s, r) ==
    IF AIIdle(s) THEN s
    ELSE AIDecision([s EXCEPT !.aiState = [@ EXCEPT !.attackTimer = Min(@ + 1, TimerCap),
                                                    !.moveTimer = Min(@ + 1, TimerCap),
                                                    !.blockTimer = Min(@ + 1, TimerCap),
                                                    !.dashTimer = Min(@ + 1, TimerCap)]], r)

\* the callbacks and input events handled, those handled before the player
\* first attacks, and the frames of one run
AICalls == 22
AIQuiet == 16
AIFrameRun == 30

AIStart == StartBattleOf({<<"ninja", "knight">>}, 1)

\* a callback of the interval of the match
AICycle ==
    /\ 1 \in intervals
    /\ calls < AICalls
    /\ \E r \in AIDraws : Become([OpponentAI(State, r) EXCEPT !.calls = @ + 1])
    /\ IF AIIdle(State) THEN UNCHANGED last ELSE Ran("updateOpponentAI", "opponent", TRUE, 1)

AIPlayerAttack ==
    /\ calls >= AIQuiet
    /\ calls < AICalls
    /\ \E type \in {"light", "special"} :
          Become([HandlePlayerAttack(State, type) EXCEPT !.calls = @ + 1])
    /\ Ran("playerAttack", "player", TRUE, 1)

AIFrame ==
    /\ loops > 0
    /\ elapsed < AIFrameRun
    /\ \E r \in ArenaDraws : Become(GameLoop(State, AIFrameRun, r))
    /\ Ran("gameLoop", "none", TRUE, 1)

NextAI ==
    \/ AIStart
    \/ AICycle
    \/ AIPlayerAttack
    \/ AIFrame
    \/ AttackEnd("player")

SpecAI == Init /\ [][NextAI]_vars

(***************************************************************************)
(* The claims on the AI decision cycle, the matchmaking, the Escape key,    *)
(* projectiles, the match statistics and the rank rewards                   *)
(***************************************************************************)
\* the calls by which the four rules act on the opponent
RuleCalls == {"startBlock", "dash", "move"} \cup AttackTypes

NoBlockUnlessBlockFired ==
    (last.op = "updateOpponentAI" /\ aiState.fired # "block") => ~ch["opponent"].isBlocking

\* in the last cycle the player was attacking within reach with the block
\* timer run out, the roll failed, stopBlock was not called, and the
\* opponent is not blocking
ThreatenedWithoutBlock ==
    /\ last.op = "updateOpponentAI"
    /\ aiState.fired # "block"
    /\ "stopBlock" \notin aiState.issued
    /\ aiState.blockTimer > blockAfter
    /\ ch["player"].isAttacking
    /\ ~ch["opponent"].isBlocking

\* C33: a decision cycle whose requested startBlock, dash or attack was
\* refused sets no timer to 0 and leaves lastAction as it was
RefusedActionLeavesAIState ==
    [][(last'.op = "updateOpponentAI" /\ calls' = calls + 1 /\ ~AIIdle(State)
            /\ ~aiState'.took) =>
          /\ aiState'.lastAction = aiState.lastAction
          /\ aiState'.blockTimer = Min(aiState.blockTimer + 1, TimerCap)
          /\ aiState'.dashTimer = Min(aiState.dashTimer + 1, TimerCap)
          /\ aiState'.attackTimer = Min(aiState.attackTimer + 1, TimerCap)]_vars

(***************************************************************************)
(* MatchmakingSystem: searches that are started and cancelled, with the     *)
(* callbacks each leaves pending: the fallback timer of an offline search,  *)
(* and for a search in the online queue the continuation of the join, the   *)
(* listener for a match and the timer of listenForMatch                     *)
(***************************************************************************)
MaxSearches == 2
MatchStarts == 2

\* MatchmakingSystem.startMatch(): startBattle with the opponent chosen;
\* started records the search the call was made for and whether
\* cancelMatchmaking had ended that search before
StartMatch(s, n, opponentType) ==
    LET s1 == StartBattle(s, "ninja", opponentType)
    IN [s1 EXCEPT !.matchmaking.started =
                      @ \cup {[search |-> n, match |-> s1.matchId,
                               cancelled |-> n \in s.matchmaking.cancelled]}]

\* MatchmakingSystem.startMatchmaking(playerData) up to its await or its
\* setTimeout; online is firebaseManager.isOnline()
StartMatchmaking(s, online) ==
    IF s.matchmaking.isSearching THEN s
    ELSE LET n == s.matchmaking.search + 1
         IN [s EXCEPT !.matchmaking.isSearching = TRUE,
                      !.matchmaking.search = n,
                      !.matchmaking.pending =
                          @ \cup {[kind |-> IF online THEN "join" ELSE "fallback", search |-> n]}]

\* the continuation of startMatchmaking once joinMatchmakingQueue has
\* pushed the queue entry and called listenForMatch(queueId)
JoinedQueue(s, n) ==
    [s EXCEPT !.matchmaking.currentQueue = "queue",
              !.matchmaking.pending =
                  (@ \ {[kind |-> "join", search |-> n]})
                      \cup {[kind |-> "matched", search |-> n],
                            [kind |-> "timeout", search |-> n]}]

\* MatchmakingSystem.cancelMatchmaking(): leaveMatchmakingQueue removes the
\* queue entry, so that the listener of the current queue sees no match any
\* more; no timer is cleared
CancelMatchmaking(s) ==
    IF ~s.matchmaking.isSearching THEN s
    ELSE [s EXCEPT !.matchmaking.isSearching = FALSE,
                   !.matchmaking.currentQueue = "none",
                   !.matchmaking.cancelled = @ \cup {s.matchmaking.search},
                   !.matchmaking.pending =
                       IF s.matchmaking.currentQueue = "none" THEN @
                       ELSE @ \ {[kind |-> "matched", search |-> s.matchmaking.search]}]

\* the value listener of listenForMatch on a matched entry: the matchFound
\* event with handleMatchFound, then queueRef.off()
HandleMatchFound(s, n, opponentType) ==
    [StartMatch([s EXCEPT !.matchmaking.isSearching = FALSE], n, opponentType)
     EXCEPT !.matchmaking.pending = @ \ {[kind |-> "matched", search |-> n]}]

\* the setTimeout of listenForMatch (queueRef.off() and the
\* matchmakingTimeout event) or of the offline branch of startMatchmaking,
\* with handleMatchmakingTimeout
HandleMatchmakingTimeout(s, n, opponentType) ==
    [StartMatch([s EXCEPT !.matchmaking.isSearching = FALSE], n, opponentType)
     EXCEPT !.matchmaking.pending = {p \in @ : p.search # n}]

DoStartMatchmaking ==
    /\ matchmaking.search < MaxSearches
    /\ \E online \in BOOLEAN : Become(StartMatchmaking(State, online))
    /\ Ran("startMatchmaking", "none", TRUE, 0)

DoJoinedQueue ==
    /\ \E p \in matchmaking.pending : p.kind = "join" /\ Become(JoinedQueue(State, p.search))
    /\ Ran("joinMatchmakingQueue", "none", TRUE, 0)

DoCancelMatchmaking ==
    /\ Become(CancelMatchmaking(State))
    /\ Ran("cancelMatchmaking", "none", matchmaking.isSearching, 0)

MatchFound ==
    /\ matchId < MatchStarts
    /\ \E p \in matchmaking.pending, o \in {"knight", "mage"} :
          p.kind = "matched" /\ Become(HandleMatchFound(State, p.search, o))
    /\ Ran("handleMatchFound", "none", TRUE, 0)

MatchmakingTimeout ==
    /\ matchId < MatchStarts
    /\ \E p \in matchmaking.pending, o \in {"knight", "mage"} :
          p.kind \in {"timeout", "fallback"}
              /\ Become(HandleMatchmakingTimeout(State, p.search, o))
    /\ Ran("handleMatchmakingTimeout", "none", TRUE, 0)

NextMatch ==
    \/ DoStartMatchmaking
    \/ DoJoinedQueue
    \/ DoCancelMatchmaking
    \/ MatchFound
    \/ MatchmakingTimeout
    \/ DoQuitBattle

SpecMatch == Init /\ [][NextMatch]_vars

\* C34: no call of startMatch is made for a search that cancelMatchmaking
\* had ended
NoBattleAfterCancel == \A e \in matchmaking.started : ~e.cancelled

\* C35: no two calls of startMatch are made for one search
OneBattlePerSearch ==
    \A e, f \in matchmaking.started : e.search = f.search => e.match = f.match

(***************************************************************************)
(* The Escape key during a match: the keydown listeners of the input        *)
(* manager and of the screen manager, both on document                      *)
(***************************************************************************)
\* InputManager.handleKeyDown(e), e.code = 'Escape'
HandleKeyDown(s) == IF s.isPlaying THEN [s EXCEPT !.isPaused = ~@] ELSE s

\* ScreenManager.handleKeyboardNavigation(e), e.key = 'Escape', while the
\* game screen is shown and the battle is active
HandleKeyboardNavigation(s) ==
    IF s.currentScreen = "gameScreen" /\ s.isActive THEN PauseBattle(s) ELSE s

\* one keydown event of the Escape key during a match: every listener on
\* document is called with it. Outside a match the screen manager goes back
\* in its screen history instead
KeyPresses == 3

EscapeKey ==
    /\ currentScreen = "gameScreen"
    /\ isActive
    /\ calls < KeyPresses
    /\ Become([HandleKeyboardNavigation(HandleKeyDown(State)) EXCEPT !.calls = @ + 1])
    /\ Ran("keydown", "Escape", TRUE, matchId)

NextKeys ==
    \/ DoStartBattle
    \/ DoRematch
    \/ DoQuitBattle
    \/ DoPauseBattle
    \/ Frame
    \/ EscapeKey

SpecKeys == Init /\ [][NextKeys]_vars

\* C36: a keydown of the Escape key during a match inverts the paused state
EscapeTogglesPause ==
    [][(last'.op = "keydown" /\ calls' = calls + 1) => isPaused' = ~isPaused]_vars

(***************************************************************************)
(* The fireballs of one match of a mage against a knight, each kept as the  *)
(* entry createProjectile made for it, frame by frame                       *)
(***************************************************************************)
\* the longest the match is run, in quanta
ProjectileTime == 80

ProjectileStart == StartBattleOf({<<"mage", "knight">>}, 1)

\* handlePlayerAttack({type: 'special'}) of the mage: the entry of the
\* fireball goes to gameEngine.gameObjects
CastFireball ==
    /\ ~PlayerIdle(State)
    /\ LET r == AttackOf(ch, "player", "special")
           key == Cardinality(projectileObjects) + 1
       IN /\ Become([State EXCEPT
                        !.ch = r.chs,
                        !.projectileObjects =
                            IF r.spawned = {} THEN @
                            ELSE @ \cup {NewProjectileObject(key, "player", ch["player"])}])
          /\ Ran("specialAttack", "player", r.ret, 1)

\* one requestAnimationFrame callback of gameLoop with a capped frame;
\* sameMs says that it runs in the millisecond in which the entries not yet
\* updated were made
ProjectileFrame ==
    /\ loops > 0
    /\ elapsed < ProjectileTime
    /\ \E r \in ArenaDraws, sameMs \in BOOLEAN :
          Become(GameLoop([State EXCEPT !.projectileObjects =
                                  {[o EXCEPT !.named = o.fresh /\ sameMs] : o \in @}], 1, r))
    /\ Ran("gameLoop", "none", TRUE, 1)

NextProjectile ==
    \/ ProjectileStart
    \/ CastFireball
    \/ ProjectileFrame

SpecProjectile == Init /\ [][NextProjectile]_vars

\* C37: an entry of createProjectile is among the game objects only while
\* its projectile has life left and has struck nobody
ProjectilesAreRemoved == \A o \in projectileObjects : o.life > 0 /\ o.hits = 0

(***************************************************************************)
(* The match statistics: one match of two ninjas in which both sides        *)
(* attack, with the characterDamaged event of every takeDamage that an      *)
(* attack makes                                                             *)
(***************************************************************************)
\* the frames of one run and the longest the match is run, in quanta
StatsRun == 30
StatsTime == 330

\* BattleSystem.handleCharacterDamaged(detail) for a hit of the attacker a
\* on the other combatant; removed is the health the hit took
HandleCharacterDamaged(s, a, damage, removed) ==
    IF ~s.isActive THEN s
    ELSE IF a = "player"
    THEN [s EXCEPT !.battleStats.playerDamageDealt = @ + damage,
                   !.battleStats.playerHitsLanded = @ + 1,
                   !.battleStats.playerRemoved = @ + removed]
    ELSE [s EXCEPT !.battleStats.opponentDamageDealt = @ + damage,
                   !.battleStats.opponentHitsLanded = @ + 1,
                   !.battleStats.opponentRemoved = @ + removed]

\* an attack of the combatant a, asked for by handlePlayerAttack or by the
\* attack rule of the AI, with the characterDamaged event takeDamage
\* dispatches when it has passed its guard: detail.damage is the amount
\* dealDamage handed to takeDamage
AttackWithStats(s, a, type) ==
    LET t == Other(a)
        r == AttackOf(s.ch, a, type)
        s1 == Called(s, r)
        struck == s.ch[t].invulnerabilityTime = 0 /\ ~s.ch[t].isDead
                     /\ r.chs[t].invulnerabilityTime = invulnerabilityWindow
        amount == EffectiveDamage(r.chs[a], s.ch[t], AbilityOf(s.ch[a].type, type))
    IN IF struck
       THEN HandleCharacterDamaged(s1, a, amount, s.ch[t].health - r.chs[t].health)
       ELSE s1

StatsStart == StartBattleOf({<<"ninja", "ninja">>}, 1)

StatsAttack ==
    /\ isActive
    /\ spawned = Combatants
    /\ \E a \in Combatants, type \in {"light", "special"} :
          /\ ~ch[a].isDead
          /\ Become(AttackWithStats(State, a, type))
          /\ Ran("attack", a, AttackOf(ch, a, type).ret, 1)

StatsFrame ==
    /\ loops > 0
    /\ elapsed < StatsTime
    /\ \E r \in ArenaDraws : Become(GameLoop(State, StatsRun, r))
    /\ Ran("gameLoop", "none", TRUE, 1)

NextStats ==
    \/ StatsStart
    \/ StatsAttack
    \/ StatsFrame
    \/ \E c \in Combatants : AttackEnd(c)

SpecStats == Init /\ [][NextStats]_vars

\* C38: when a match has ended, the damage credited to each side is the
\* health that side's attacks took from the other combatant, and no more
\* than the health a combatant has
CreditedDamageIsHealthRemoved ==
    (matchId > 0 /\ ~isActive) =>
        /\ battleStats.playerDamageDealt = battleStats.playerRemoved
        /\ battleStats.opponentDamageDealt = battleStats.opponentRemoved
        /\ battleStats.playerDamageDealt <= maxHealth * HpScale
        /\ battleStats.opponentDamageDealt <= maxHealth * HpScale

(***************************************************************************)
(* The rank of a player over a sequence of recorded battle results          *)
(***************************************************************************)
RankMatches == 43

RecordResult ==
    /\ progress.gamesPlayed < RankMatches
    /\ \E result \in {"victory", "defeat", "draw"} :
          /\ Become([State EXCEPT !.progress = RecordBattleResult(progress, result)])
          /\ Ran("recordBattleResult", result, TRUE, 0)

NextRank == RecordResult

SpecRank == Init /\ [][NextRank]_vars

\* C39: a recorded battle result gives out the rewards of a rank only if it
\* is a victory that takes the player to a higher rank than the one held
\* before, and the rewards of no rank are given out twice
RankRewardsOnceOnPromotion ==
    [][/\ \A i \in DOMAIN Ranks : progress'.rankRewards[i] <= 1
       /\ progress'.rankRewards # progress.rankRewards =>
             /\ RankOrder(progress'.rank) > RankOrder(progress.rank)
             /\ last'.who = "victory"]_vars

====
